---------------------------- MODULE Spec2Model ----------------------------
(***************************************************************************)
(* HealthLogOps: the persistence layer (src/src/database/manager.py) and   *)
(* the dynamic form (src/src/ui/components/form_builder.py), and the parts *)
(* of the screens (src/src/ui/screens) and of the log card                 *)
(* (src/src/ui/components/log_card.py) that decide what is written.        *)
(*                                                                         *)
(* The store is two SQLite tables, categories and health_logs, each with   *)
(* an AUTOINCREMENT key.  DatabaseManager opens one connection per call,   *)
(* runs one statement, commits on success and rolls back on sqlite3.Error. *)
(* Templates and metrics are kept as JSON text, timestamps as ISO text.    *)
(*                                                                         *)
(* Python values are tagged records [t |-> type, v |-> value] so that the  *)
(* type of a value is part of the value: PyInt(5) and PyFloat(50) (5.0)    *)
(* are different.  Text columns that the code formats (JSON, ISO time) are *)
(* sequences of characters.                                                *)
(***************************************************************************)
EXTENDS Integers, Sequences, FiniteSets, TLC

VARIABLES
    categories,      \* rows of table categories
    seq_categories,  \* sqlite_sequence of categories (largest id ever given)
    health_logs,     \* rows of table health_logs
    seq_health_logs, \* sqlite_sequence of health_logs
    last,            \* the last call: op, noop, ret, exc
    current_template,\* the log screen's template: field name -> type tag
    current_fields,  \* the log screen's form: <<field name, text of the field>>
    seeding,         \* the executions of seed_default_categories under way
    edit_log_screen, \* the attributes and widgets of EditLogScreen
    home,            \* the attributes and widgets of HomeScreen
    card             \* the gesture state of a SwipeableLogCard

vars == <<categories, seq_categories, health_logs, seq_health_logs, last,
          current_template, current_fields, seeding, edit_log_screen, home,
          card>>

(***************************************************************************)
(* Bounds of the model.                                                    *)
(***************************************************************************)
\* ids given by the categories table never exceed SeedCount + MaxExtraCategories
MaxExtraCategories == 1
\* ids given by the health_logs table never exceed this (Spec, SpecFaults)
MaxLogs == 2
\* ids given by the health_logs table never exceed this (SpecLogs)
MaxWideLogs == 2

(***************************************************************************)
(* Python values.                                                          *)
(***************************************************************************)
PyNone == [t |-> "NoneType"]
PyStr(s) == [t |-> "str", v |-> s]
PyInt(n) == [t |-> "int", v |-> n]
\* a float with one decimal digit: v is the value in tenths (50 is 5.0)
PyFloat(tenths) == [t |-> "float", v |-> tenths]
\* a dict keeps insertion order: v is a sequence of <<key, value>>, keys distinct
PyDict(items) == [t |-> "dict", v |-> items]

IsNone(x) == x.t = "NoneType"

\* Python truthiness of None / dict, as used by `template or {}`
Truthy(x) == IF x.t = "NoneType" THEN FALSE
             ELSE IF x.t = "dict" THEN Len(x.v) > 0
             ELSE TRUE

\* `x or {}`
OrEmptyDict(x) == IF Truthy(x) THEN x ELSE PyDict(<<>>)

\* dict equality ignores insertion order
DictItems(d) == {d.v[i] : i \in 1..Len(d.v)}
DictEq(a, b) == a.t = "dict" /\ b.t = "dict" /\ Len(a.v) = Len(b.v)
                /\ DictItems(a) = DictItems(b)

(***************************************************************************)
(* Text: sequences of characters.                                          *)
(***************************************************************************)
Digits == <<"0", "1", "2", "3", "4", "5", "6", "7", "8", "9">>
DigitChar(d) == Digits[d + 1]
IsDigit(c) == \E d \in 0..9 : Digits[d + 1] = c
DigitVal(c) == CHOOSE d \in 0..9 : Digits[d + 1] = c

\* decimal digits of a natural number, no padding (str(n))
RECURSIVE NatText(_)
NatText(n) == IF n < 10 THEN <<DigitChar(n)>>
              ELSE NatText(n \div 10) \o <<DigitChar(n % 10)>>

\* value of a sequence of digit characters
RECURSIVE TextNat(_)
TextNat(s) == IF Len(s) = 0 THEN 0
              ELSE 10 * TextNat(SubSeq(s, 1, Len(s) - 1)) + DigitVal(s[Len(s)])

\* n as exactly w digits, zero padded ("%0wd")
RECURSIVE ZeroPad(_, _)
ZeroPad(n, w) == IF w = 0 THEN <<>>
                 ELSE ZeroPad(n \div 10, w - 1) \o <<DigitChar(n % 10)>>


\* byte value of a character of a timestamp text (ASCII)
Ord(c) == IF IsDigit(c) THEN 48 + DigitVal(c)
          ELSE IF c = "." THEN 46
          ELSE IF c = "-" THEN 45
          ELSE IF c = ":" THEN 58
          ELSE 84

\* SQLite's BINARY collation (memcmp; a proper prefix sorts first)
RECURSIVE TextLess(_, _)
TextLess(a, b) ==
    IF Len(b) = 0 THEN FALSE
    ELSE IF Len(a) = 0 THEN TRUE
    ELSE IF a[1] = b[1] THEN TextLess(Tail(a), Tail(b))
    ELSE Ord(a[1]) < Ord(b[1])

(***************************************************************************)
(* json.dumps / json.loads of a flat dict with str keys and int, float or  *)
(* str values (Python's default separators ", " and ": ").  The content of *)
(* a str is one unbreakable chunk; the chunks "\"" and "\\" are the two    *)
(* characters JSON escapes.                                                *)
(***************************************************************************)
json_escape(s) == IF s = "\"" THEN <<"\\", "\"">>
                  ELSE IF s = "\\" THEN <<"\\", "\\">>
                  ELSE IF s = "" THEN <<>>
                  ELSE <<s>>

json_str(s) == <<"\"">> \o json_escape(s) \o <<"\"">>

\* int.__repr__
int_repr(n) == IF n < 0 THEN <<"-">> \o NatText(-n) ELSE NatText(n)

float_repr_drop_zero(tenths) ==
    LET a == IF tenths < 0 THEN -tenths ELSE tenths
        sign == IF tenths < 0 THEN <<"-">> ELSE <<>>
    IN  IF a % 10 = 0 THEN sign \o NatText(a \div 10)
        ELSE sign \o NatText(a \div 10) \o <<".">> \o <<DigitChar(a % 10)>>

\* float.__repr__: always a fraction part ("5.0", never "5")
float_repr(tenths) ==
    LET a == IF tenths < 0 THEN -tenths ELSE tenths
        sign == IF tenths < 0 THEN <<"-">> ELSE <<>>
    IN  sign \o NatText(a \div 10) \o <<".">> \o <<DigitChar(a % 10)>>

json_value(x) == IF x.t = "str" THEN json_str(x.v)
                 ELSE IF x.t = "int" THEN int_repr(x.v)
                 ELSE float_repr(x.v)

RECURSIVE json_items(_)
json_items(items) ==
    IF Len(items) = 0 THEN <<>>
    ELSE json_str(items[1][1]) \o <<":", " ">> \o json_value(items[1][2])
         \o (IF Len(items) > 1 THEN <<",", " ">> \o json_items(Tail(items))
             ELSE <<>>)

json_dumps(d) == <<"{">> \o json_items(d.v) \o <<"}">>

\* the str starting at the quote text[i]: its content and the index after it
json_parse_str(text, i) ==
    IF text[i + 1] = "\"" THEN [val |-> "", next |-> i + 2]
    ELSE IF text[i + 1] = "\\" THEN [val |-> text[i + 2], next |-> i + 4]
    ELSE [val |-> text[i + 1], next |-> i + 3]

IsNumChar(c) == IsDigit(c) \/ c = "-" \/ c = "."

\* the first index >= i whose character is not part of a number
RECURSIVE json_num_end(_, _)
json_num_end(text, i) ==
    IF i > Len(text) \/ ~IsNumChar(text[i]) THEN i
    ELSE json_num_end(text, i + 1)

\* a number lexeme: with a fraction part it is a float, otherwise an int
json_parse_num(text, i) ==
    LET e == json_num_end(text, i)
        neg == text[i] = "-"
        b == IF neg THEN i + 1 ELSE i
        dots == {k \in b..(e - 1) : text[k] = "."}
    IN  IF dots = {}
        THEN LET n == TextNat(SubSeq(text, b, e - 1))
             IN  [val |-> PyInt(IF neg THEN -n ELSE n), next |-> e]
        ELSE LET d == CHOOSE k \in dots : TRUE
                 n == 10 * TextNat(SubSeq(text, b, d - 1))
                      + TextNat(SubSeq(text, d + 1, e - 1))
             IN  [val |-> PyFloat(IF neg THEN -n ELSE n), next |-> e]

json_parse_value(text, i) ==
    IF text[i] = "\""
    THEN LET r == json_parse_str(text, i)
         IN  [val |-> PyStr(r.val), next |-> r.next]
    ELSE json_parse_num(text, i)

\* skip the whitespace json.loads allows between tokens
RECURSIVE json_skip_ws(_, _)
json_skip_ws(text, i) ==
    IF i <= Len(text) /\ text[i] = " " THEN json_skip_ws(text, i + 1) ELSE i

\* the members from the key at text[i] up to the closing brace
RECURSIVE json_parse_members(_, _)
json_parse_members(text, i) ==
    LET k == json_parse_str(text, i)
        c == json_skip_ws(text, k.next)           \* at ":"
        v == json_parse_value(text, json_skip_ws(text, c + 1))
        n == json_skip_ws(text, v.next)           \* at "," or "}"
    IN  IF text[n] = ","
        THEN <<<<k.val, v.val>>>>
             \o json_parse_members(text, json_skip_ws(text, n + 1))
        ELSE <<<<k.val, v.val>>>>

json_loads(text) ==
    LET i == json_skip_ws(text, 2)
    IN  IF text[i] = "}" THEN PyDict(<<>>)
        ELSE PyDict(json_parse_members(text, i))

(***************************************************************************)
(* datetime: a naive datetime on a fixed day, hour and minute.             *)
(***************************************************************************)
PyDatetime(s, us) == [t |-> "datetime", second |-> s, microsecond |-> us]

DatePrefix == "2024-01-01T10:00:"

isoformat_unpadded(dt) ==
    <<DatePrefix>> \o NatText(dt.second)
    \o (IF dt.microsecond # 0 THEN <<".">> \o NatText(dt.microsecond)
        ELSE <<>>)

\* datetime.isoformat(): "...:SS", and ".ffffff" only when microsecond # 0
isoformat(dt) ==
    <<DatePrefix>> \o ZeroPad(dt.second, 2)
    \o (IF dt.microsecond # 0 THEN <<".">> \o ZeroPad(dt.microsecond, 6)
        ELSE <<>>)

\* datetime.fromisoformat() of such a text: the seconds run up to the "."
\* (two digits in every text isoformat writes), the microseconds follow it
fromisoformat(text) ==
    LET dots == {k \in 2..Len(text) : text[k] = "."}
        e == IF dots = {} THEN Len(text) + 1 ELSE CHOOSE k \in dots : TRUE
    IN  PyDatetime(TextNat(SubSeq(text, 2, e - 1)),
                   IF dots = {} THEN 0
                   ELSE TextNat(SubSeq(text, e + 1, Len(text))))

\* datetime.__lt__
DatetimeLess(a, b) ==
    \/ a.second < b.second
    \/ a.second = b.second /\ a.microsecond < b.microsecond


(***************************************************************************)
(* SQLite.  A database is the two tables and their sqlite_sequence rows.   *)
(* A statement yields [err, db, lastrowid, rowcount]; a failed statement   *)
(* leaves the database as it was (statement atomicity).                    *)
(***************************************************************************)
Db(c, sc, h, sh) ==
    [categories |-> c, seq_categories |-> sc,
     health_logs |-> h, seq_health_logs |-> sh]

PRAGMA_foreign_keys_on == TRUE

\* sqlite3.connect() never issues PRAGMA foreign_keys = ON, and SQLite leaves
\* foreign keys off by default: the FOREIGN KEY clause is not enforced
PRAGMA_foreign_keys == FALSE

StmtOk(db, lastrowid, rowcount) ==
    [err |-> "none", db |-> db, lastrowid |-> lastrowid, rowcount |-> rowcount]
StmtFail(db, err) ==
    [err |-> err, db |-> db, lastrowid |-> 0, rowcount |-> 0]

\* the errors that derive from sqlite3.Error
sqlite3_Error == {"IntegrityError", "OperationalError"}

INSERT_categories_no_unique(db, name, icon, template_json) ==
    LET id == db.seq_categories + 1
        row == [id |-> id, name |-> name, icon |-> icon,
                template_json |-> template_json]
    IN  StmtOk([db EXCEPT !.categories = @ \cup {row},
                          !.seq_categories = id], id, 1)

\* INSERT INTO categories (name, icon, template_json) VALUES (?, ?, ?)
\* with name TEXT NOT NULL UNIQUE, icon TEXT NOT NULL, id AUTOINCREMENT
INSERT_categories(db, name, icon, template_json) ==
    LET id == db.seq_categories + 1
        row == [id |-> id, name |-> name, icon |-> icon,
                template_json |-> template_json]
    IN  IF IsNone(name) \/ IsNone(icon)
        THEN StmtFail(db, "IntegrityError")    \* NOT NULL constraint failed
        ELSE IF \E r \in db.categories : r.name = name
        THEN StmtFail(db, "IntegrityError")    \* UNIQUE constraint failed
        ELSE StmtOk([db EXCEPT !.categories = @ \cup {row},
                               !.seq_categories = id], id, 1)

\* the row with the columns named in sets replaced (sets: column -> value,
\* PyNone for a column the statement does not set)
SetCategory(r, sets) ==
    [id |-> r.id,
     name |-> IF IsNone(sets.name) THEN r.name ELSE sets.name,
     icon |-> IF IsNone(sets.icon) THEN r.icon ELSE sets.icon,
     template_json |-> IF sets.template_json = <<>> THEN r.template_json
                       ELSE sets.template_json]

UPDATE_categories_no_unique(db, sets, id) ==
    LET hit == {r \in db.categories : r.id = id}
    IN  StmtOk([db EXCEPT !.categories =
                   (@ \ hit) \cup {SetCategory(r, sets) : r \in hit}],
               0, Cardinality(hit))

\* UPDATE categories SET <columns of sets> WHERE id = ?
UPDATE_categories(db, sets, id) ==
    LET hit == {r \in db.categories : r.id = id}
    IN  IF /\ hit # {}
           /\ ~IsNone(sets.name)
           /\ \E o \in db.categories : o.id # id /\ o.name = sets.name
        THEN StmtFail(db, "IntegrityError")    \* UNIQUE constraint failed
        ELSE StmtOk([db EXCEPT !.categories =
                        (@ \ hit) \cup {SetCategory(r, sets) : r \in hit}],
                    0, Cardinality(hit))

\* DELETE FROM categories WHERE id = ?   (ON DELETE CASCADE acts only with
\* foreign keys on)
DELETE_categories(db, id) ==
    LET hit == {r \in db.categories : r.id = id}
        refs == IF PRAGMA_foreign_keys
                THEN {l \in db.health_logs :
                        hit # {} /\ l.category_id = PyInt(id)}
                ELSE {}
    IN  StmtOk([db EXCEPT !.categories = @ \ hit, !.health_logs = @ \ refs],
               0, Cardinality(hit))

INSERT_health_logs_max_rowid(db, category_id, activity_name, timestamp, metrics_json, notes) ==
    LET ids == {r.id : r \in db.health_logs}
        id == IF ids = {} THEN 1
              ELSE (CHOOSE m \in ids : \A o \in ids : o <= m) + 1
        row == [id |-> id, category_id |-> category_id,
                activity_name |-> activity_name, timestamp |-> timestamp,
                metrics_json |-> metrics_json, notes |-> notes]
    IN  IF IsNone(category_id) \/ IsNone(activity_name)
        THEN StmtFail(db, "IntegrityError")
        ELSE StmtOk([db EXCEPT !.health_logs = @ \cup {row},
                               !.seq_health_logs = id], id, 1)

\* INSERT INTO health_logs (category_id, activity_name, timestamp,
\*                          metrics_json, notes) VALUES (?, ?, ?, ?, ?)
INSERT_health_logs(db, category_id, activity_name, timestamp, metrics_json, notes) ==
    LET id == db.seq_health_logs + 1
        row == [id |-> id, category_id |-> category_id,
                activity_name |-> activity_name, timestamp |-> timestamp,
                metrics_json |-> metrics_json, notes |-> notes]
    IN  IF IsNone(category_id) \/ IsNone(activity_name)
        THEN StmtFail(db, "IntegrityError")    \* NOT NULL constraint failed
        ELSE IF /\ PRAGMA_foreign_keys
                /\ ~\E c \in db.categories : PyInt(c.id) = category_id
        THEN StmtFail(db, "IntegrityError")    \* FOREIGN KEY constraint failed
        ELSE StmtOk([db EXCEPT !.health_logs = @ \cup {row},
                               !.seq_health_logs = id], id, 1)

SetLog(r, sets) ==
    [id |-> r.id, category_id |-> r.category_id, timestamp |-> r.timestamp,
     activity_name |-> IF IsNone(sets.activity_name) THEN r.activity_name
                       ELSE sets.activity_name,
     metrics_json |-> IF sets.metrics_json = <<>> THEN r.metrics_json
                      ELSE sets.metrics_json,
     notes |-> IF IsNone(sets.notes) THEN r.notes ELSE sets.notes]

\* UPDATE health_logs SET <columns of sets> WHERE id = ?
UPDATE_health_logs(db, sets, id) ==
    LET hit == {r \in db.health_logs : r.id = id}
    IN  StmtOk([db EXCEPT !.health_logs =
                   (@ \ hit) \cup {SetLog(r, sets) : r \in hit}],
               0, Cardinality(hit))

DELETE_health_logs_of_category(db, id) ==
    LET hit == {r \in db.health_logs : r.id = id}
        all == {r \in db.health_logs :
                  \E h \in hit : r.category_id = h.category_id}
    IN  StmtOk([db EXCEPT !.health_logs = @ \ all], 0, Cardinality(all))

\* DELETE FROM health_logs WHERE id = ?
DELETE_health_logs(db, id) ==
    LET hit == {r \in db.health_logs : r.id = id}
    IN  StmtOk([db EXCEPT !.health_logs = @ \ hit], 0, Cardinality(hit))


(***************************************************************************)
(* DatabaseManager.  Every method is a function of the database that       *)
(* yields [db, ret, exc]: the database after the call, the value returned  *)
(* (PyNone when the call raises) and the exception raised ("none" if none).*)
(***************************************************************************)
Outcome(db, ret, exc) == [db |-> db, ret |-> ret, exc |-> exc]

\* the environment of one call: "none" (the store works), "connect"
\* (sqlite3.connect raises OperationalError: the file cannot be opened) or
\* "execute" (the statement raises OperationalError: locked, disk I/O error)
Environments == {"none", "connect", "execute"}

_get_connection_reraises(db, env, res) ==
    LET r == IF env = "execute" THEN StmtFail(db, "OperationalError") ELSE res
    IN  IF env = "connect" THEN [db |-> db, exc |-> "OperationalError"]
        ELSE IF r.err = "none" THEN [db |-> r.db, exc |-> "none"]
        ELSE [db |-> db, exc |-> r.err]

\* sqlite3.connect() runs before the try block, so its
\* error is not caught.  Inside the block: commit when it ends normally; on
\* sqlite3.Error roll back and raise DatabaseError; any other error leaves
\* through `finally` (close without commit)
_get_connection(db, env, res) ==
    LET r == IF env = "execute" THEN StmtFail(db, "OperationalError") ELSE res
    IN  IF env = "connect" THEN [db |-> db, exc |-> "OperationalError"]
        ELSE IF r.err = "none" THEN [db |-> r.db, exc |-> "none"]
        ELSE IF r.err \in sqlite3_Error
        THEN [db |-> db, exc |-> "DatabaseError"]
        ELSE [db |-> db, exc |-> r.err]

add_category(db, env, name, icon, template) ==
    LET template_json == json_dumps(OrEmptyDict(template))
        res == INSERT_categories(db, name, icon, template_json)
        tx == _get_connection(db, env, res)
    IN  Outcome(tx.db, IF tx.exc = "none" THEN res.lastrowid ELSE PyNone,
                tx.exc)

_row_to_category_keys_reversed(row) ==
    LET d == json_loads(row.template_json)
    IN  [t |-> "dict", id |-> row.id, name |-> row.name, icon |-> row.icon,
         template |-> PyDict([i \in 1..Len(d.v) |-> d.v[Len(d.v) + 1 - i]])]

_row_to_category(row) ==
    [t |-> "dict", id |-> row.id, name |-> row.name, icon |-> row.icon,
     template |-> json_loads(row.template_json)]

get_category(db, category_id) ==
    LET hit == {r \in db.categories : r.id = category_id}
    IN  IF hit # {} THEN _row_to_category(CHOOSE r \in hit : TRUE)
        ELSE PyNone

\* the names of the model in the order of SQLite's BINARY collation
CollationOrder ==
    <<"Cardio", "Meal", "Sleep", "Strength Training", "Water Intake",
      "Weight Log", "Yoga">>
NameRank(name) == CHOOSE i \in 1..Len(CollationOrder) :
                      CollationOrder[i] = name.v

RECURSIVE OrderById(_)
OrderById(rows) ==
    IF rows = {} THEN <<>>
    ELSE LET m == CHOOSE r \in rows : \A o \in rows : r.id <= o.id
         IN  <<m>> \o OrderById(rows \ {m})

\* rows as the sequence ordered by name (names are unique)
RECURSIVE OrderByName(_)
OrderByName(rows) ==
    IF rows = {} THEN <<>>
    ELSE LET m == CHOOSE r \in rows :
                     \A o \in rows : NameRank(r.name) <= NameRank(o.name)
         IN  <<m>> \o OrderByName(rows \ {m})

get_all_categories(db) ==
    LET rows == OrderByName(db.categories)
    IN  [i \in 1..Len(rows) |-> _row_to_category(rows[i])]

update_category_all_columns(db, env, category_id, name, icon, template) ==
    LET sets == [name |-> name, icon |-> icon,
                 template_json |-> json_dumps(OrEmptyDict(template))]
        res == UPDATE_categories(db, sets, category_id)
        tx == _get_connection(db, env, res)
    IN  IF IsNone(name) /\ IsNone(icon) /\ IsNone(template)
        THEN Outcome(db, FALSE, "none")
        ELSE Outcome(tx.db,
                     IF tx.exc = "none" THEN res.rowcount > 0 ELSE PyNone,
                     tx.exc)

update_category(db, env, category_id, name, icon, template) ==
    LET sets == [name |-> name, icon |-> icon,
                 template_json |-> IF IsNone(template) THEN <<>>
                                   ELSE json_dumps(template)]
        res == UPDATE_categories(db, sets, category_id)
        tx == _get_connection(db, env, res)
    IN  IF IsNone(name) /\ IsNone(icon) /\ IsNone(template)
        THEN Outcome(db, FALSE, "none")
        ELSE Outcome(tx.db,
                     IF tx.exc = "none" THEN res.rowcount > 0 ELSE PyNone,
                     tx.exc)

delete_category(db, env, category_id) ==
    LET res == DELETE_categories(db, category_id)
        tx == _get_connection(db, env, res)
    IN  Outcome(tx.db, IF tx.exc = "none" THEN res.rowcount > 0 ELSE PyNone,
                tx.exc)

\* add_log with the clock reading `now` (datetime.now())
add_log(db, env, category_id, activity_name, metrics, notes, timestamp, now) ==
    LET metrics_json == json_dumps(OrEmptyDict(metrics))
        ts == IF IsNone(timestamp) THEN now ELSE timestamp
        res == INSERT_health_logs(db, category_id, activity_name,
                                  isoformat(ts), metrics_json, notes)
        tx == _get_connection(db, env, res)
    IN  Outcome(tx.db, IF tx.exc = "none" THEN res.lastrowid ELSE PyNone,
                tx.exc)

\* row is a health_logs row; joined is <<>> or <<category_name, category_icon>>
_row_to_log(row, joined) ==
    LET log_dict == [t |-> "dict", id |-> row.id,
                     category_id |-> row.category_id,
                     activity_name |-> row.activity_name,
                     timestamp |-> fromisoformat(row.timestamp),
                     metrics |-> json_loads(row.metrics_json),
                     notes |-> row.notes]
    IN  IF joined # <<>>
        THEN [k \in DOMAIN log_dict \cup {"category_name", "category_icon"} |->
                IF k = "category_name" THEN joined[1]
                ELSE IF k = "category_icon" THEN joined[2]
                ELSE log_dict[k]]
        ELSE log_dict

get_log(db, log_id) ==
    LET hit == {r \in db.health_logs : r.id = log_id}
    IN  IF hit # {} THEN _row_to_log(CHOOSE r \in hit : TRUE, <<>>)
        ELSE PyNone

\* ORDER BY timestamp: the orders SQLite may give the rows (ties in any
\* order), as sequences; desc chooses DESC
OrderByTimestamp(rows, desc) ==
    {s \in [1..Cardinality(rows) -> rows] :
        /\ \A i, j \in DOMAIN s : i # j => s[i] # s[j]
        /\ \A i, j \in DOMAIN s : i < j =>
              IF desc THEN ~TextLess(s[i].timestamp, s[j].timestamp)
              ELSE ~TextLess(s[j].timestamp, s[i].timestamp)}

Limit_one_more(s, n) == IF n < 0 \/ n + 1 >= Len(s) THEN s ELSE SubSeq(s, 1, n + 1)

\* LIMIT n (a negative n is no limit)
Limit(s, n) == IF n < 0 \/ n >= Len(s) THEN s ELSE SubSeq(s, 1, n)

\* hl LEFT JOIN categories c ON hl.category_id = c.id: c's name and icon, NULL
\* when no category matches
LeftJoinCategory(db, row) ==
    LET c == {r \in db.categories : PyInt(r.id) = row.category_id}
    IN  IF c = {} THEN <<PyNone, PyNone>>
        ELSE LET r == CHOOSE r \in c : TRUE IN <<r.name, r.icon>>

get_recent_logs_inner_join(db, limit) ==
    {LET rows == Limit(s, limit)
     IN  [i \in 1..Len(rows) |-> _row_to_log(rows[i], LeftJoinCategory(db, rows[i]))]
       : s \in OrderByTimestamp(
                  {l \in db.health_logs :
                     \E c \in db.categories : PyInt(c.id) = l.category_id},
                  TRUE)}

\* the lists get_recent_logs may return
get_recent_logs(db, limit) ==
    {LET rows == Limit(s, limit)
     IN  [i \in 1..Len(rows) |-> _row_to_log(rows[i], LeftJoinCategory(db, rows[i]))]
       : s \in OrderByTimestamp(db.health_logs, TRUE)}

get_logs_by_category_oldest_first(db, category_id, limit) ==
    {LET rows == Limit(s, limit)
     IN  [i \in 1..Len(rows) |-> _row_to_log(rows[i], <<>>)]
       : s \in OrderByTimestamp(
                  {r \in db.health_logs : r.category_id = category_id}, FALSE)}

\* the lists get_logs_by_category may return
get_logs_by_category(db, category_id, limit) ==
    {LET rows == Limit(s, limit)
     IN  [i \in 1..Len(rows) |-> _row_to_log(rows[i], <<>>)]
       : s \in OrderByTimestamp(
                  {r \in db.health_logs : r.category_id = category_id}, TRUE)}

delete_log_rowcount_ge_0(db, env, log_id) ==
    LET res == DELETE_health_logs(db, log_id)
        tx == _get_connection(db, env, res)
    IN  Outcome(tx.db, IF tx.exc = "none" THEN res.rowcount >= 0 ELSE PyNone,
                tx.exc)

delete_log(db, env, log_id) ==
    LET res == DELETE_health_logs(db, log_id)
        tx == _get_connection(db, env, res)
    IN  Outcome(tx.db, IF tx.exc = "none" THEN res.rowcount > 0 ELSE PyNone,
                tx.exc)

update_log_all_columns(db, env, log_id, activity_name, metrics, notes) ==
    LET sets == [activity_name |-> activity_name,
                 metrics_json |-> json_dumps(OrEmptyDict(metrics)),
                 notes |-> notes]
        res == UPDATE_health_logs(db, sets, log_id)
        tx == _get_connection(db, env, res)
    IN  IF IsNone(activity_name) /\ IsNone(metrics) /\ IsNone(notes)
        THEN Outcome(db, FALSE, "none")
        ELSE Outcome(tx.db,
                     IF tx.exc = "none" THEN res.rowcount > 0 ELSE PyNone,
                     tx.exc)

update_log_no_noop_guard(db, env, log_id, activity_name, metrics, notes) ==
    LET sets == [activity_name |-> activity_name,
                 metrics_json |-> IF IsNone(metrics) THEN <<>>
                                  ELSE json_dumps(metrics),
                 notes |-> notes]
        res == IF IsNone(activity_name) /\ IsNone(metrics) /\ IsNone(notes)
               THEN StmtFail(db, "OperationalError")   \* "SET  WHERE": syntax
               ELSE UPDATE_health_logs(db, sets, log_id)
        tx == _get_connection(db, env, res)
    IN  Outcome(tx.db, IF tx.exc = "none" THEN res.rowcount > 0 ELSE PyNone,
                tx.exc)

update_log_merges_metrics(db, env, log_id, activity_name, metrics, notes) ==
    LET hit == {r \in db.health_logs : r.id = log_id}
        old == IF hit = {} THEN PyDict(<<>>)
               ELSE json_loads((CHOOSE r \in hit : TRUE).metrics_json)
        kept == SelectSeq(old.v,
                          LAMBDA kv : \A i \in 1..Len(metrics.v) :
                                         metrics.v[i][1] # kv[1])
        sets == [activity_name |-> activity_name,
                 metrics_json |-> IF IsNone(metrics) THEN <<>>
                                  ELSE json_dumps(PyDict(kept \o metrics.v)),
                 notes |-> notes]
        res == UPDATE_health_logs(db, sets, log_id)
        tx == _get_connection(db, env, res)
    IN  IF IsNone(activity_name) /\ IsNone(metrics) /\ IsNone(notes)
        THEN Outcome(db, FALSE, "none")
        ELSE Outcome(tx.db,
                     IF tx.exc = "none" THEN res.rowcount > 0 ELSE PyNone,
                     tx.exc)

update_log(db, env, log_id, activity_name, metrics, notes) ==
    LET sets == [activity_name |-> activity_name,
                 metrics_json |-> IF IsNone(metrics) THEN <<>>
                                  ELSE json_dumps(metrics),
                 notes |-> notes]
        res == UPDATE_health_logs(db, sets, log_id)
        tx == _get_connection(db, env, res)
    IN  IF IsNone(activity_name) /\ IsNone(metrics) /\ IsNone(notes)
        THEN Outcome(db, FALSE, "none")
        ELSE Outcome(tx.db,
                     IF tx.exc = "none" THEN res.rowcount > 0 ELSE PyNone,
                     tx.exc)

Template(items) == PyDict([i \in 1..Len(items) |->
                             <<items[i][1], PyStr(items[i][2])>>])

\* the built-in categories, in the order seed_default_categories adds them
default_categories ==
    <<[name |-> PyStr("Strength Training"), icon |-> PyStr("weight-lifter"),
       template |-> Template(<<<<"sets", "int">>, <<"reps", "int">>,
                               <<"weight_kg", "float">>>>)],
      [name |-> PyStr("Cardio"), icon |-> PyStr("run"),
       template |-> Template(<<<<"duration_min", "int">>,
                               <<"distance_km", "float">>,
                               <<"avg_heart_rate", "int">>>>)],
      [name |-> PyStr("Meal"), icon |-> PyStr("food"),
       template |-> Template(<<<<"calories", "int">>, <<"protein_g", "float">>,
                               <<"carbs_g", "float">>, <<"fat_g", "float">>>>)],
      [name |-> PyStr("Sleep"), icon |-> PyStr("sleep"),
       template |-> Template(<<<<"hours", "float">>,
                               <<"quality_1_10", "int">>>>)],
      [name |-> PyStr("Water Intake"), icon |-> PyStr("water"),
       template |-> Template(<<<<"glasses", "int">>>>)],
      [name |-> PyStr("Weight Log"), icon |-> PyStr("scale-bathroom"),
       template |-> Template(<<<<"weight_kg", "float">>>>)]>>

RECURSIVE seed_loop_stops_early(_, _, _)
seed_loop_stops_early(db, env, i) ==
    IF i >= Len(default_categories) THEN Outcome(db, PyNone, "none")
    ELSE LET cat == default_categories[i]
             r == add_category(db, env, cat.name, cat.icon, cat.template)
         IN  IF r.exc \in {"none", "DatabaseError"}
             THEN seed_loop_stops_early(r.db, env, i + 1)
             ELSE Outcome(r.db, PyNone, r.exc)

\* the loop of seed_default_categories from its i-th category on: a
\* DatabaseError of add_category is swallowed, any other error propagates
RECURSIVE seed_loop(_, _, _)
seed_loop(db, env, i) ==
    IF i > Len(default_categories) THEN Outcome(db, PyNone, "none")
    ELSE LET cat == default_categories[i]
             r == add_category(db, env, cat.name, cat.icon, cat.template)
         IN  IF r.exc \in {"none", "DatabaseError"}
             THEN seed_loop(r.db, env, i + 1)
             ELSE Outcome(r.db, PyNone, r.exc)

seed_default_categories_unguarded(db, env) ==
    LET probe == _get_connection(db, env, StmtOk(db, 0, 0))
    IN  IF probe.exc # "none" THEN Outcome(db, PyNone, probe.exc)
        ELSE seed_loop(db, env, 1)

\* existing = self.get_all_categories() runs a SELECT through
\* _get_connection and raises what that raises
seed_default_categories(db, env) ==
    LET probe == _get_connection(db, env, StmtOk(db, 0, 0))
        existing == get_all_categories(db)
    IN  IF probe.exc # "none" THEN Outcome(db, PyNone, probe.exc)
        ELSE IF Len(existing) > 0 THEN Outcome(db, PyNone, "none")
        ELSE seed_loop(db, env, 1)

(***************************************************************************)
(* The dynamic form (DynamicFormBuilder).  A form is the dict `fields` of  *)
(* build_form: one KeyValueField per template field, here the pair         *)
(* <<field name, text of its value_field>>.  Texts are sequences of        *)
(* characters.  The texts of the model have no exponent, "inf" or "nan",   *)
(* no "_" and at most one digit after the point (a PyFloat is in tenths).  *)
(***************************************************************************)
\* str.strip()
RECURSIVE lstrip(_)
lstrip(s) == IF Len(s) > 0 /\ s[1] = " " THEN lstrip(Tail(s)) ELSE s

RECURSIVE rstrip(_)
rstrip(s) == IF Len(s) > 0 /\ s[Len(s)] = " "
             THEN rstrip(SubSeq(s, 1, Len(s) - 1)) ELSE s

strip(s) == rstrip(lstrip(s))

\* the str made of the characters of a text
RECURSIVE JoinText(_)
JoinText(s) == IF Len(s) = 0 THEN "" ELSE s[1] \o JoinText(Tail(s))

AllDigits(s) == \A i \in 1..Len(s) : IsDigit(s[i])
IsSign(c) == c = "-" \/ c = "+"

\* int(text): [sign] digits, else ValueError
int_of_str(text) ==
    LET s == strip(text)
        signed == Len(s) > 0 /\ IsSign(s[1])
        body == IF signed THEN Tail(s) ELSE s
        neg == signed /\ s[1] = "-"
    IN  IF Len(body) > 0 /\ AllDigits(body)
        THEN [exc |-> "none",
              val |-> PyInt(IF neg THEN -TextNat(body) ELSE TextNat(body))]
        ELSE [exc |-> "ValueError", val |-> PyNone]

\* float(text): [sign] digits [. [digits]]  or  [sign] . digits, else
\* ValueError
float_of_str(text) ==
    LET s == strip(text)
        signed == Len(s) > 0 /\ IsSign(s[1])
        body == IF signed THEN Tail(s) ELSE s
        neg == signed /\ s[1] = "-"
        dots == {k \in 1..Len(body) : body[k] = "."}
        d == IF dots = {} THEN Len(body) + 1
             ELSE CHOOSE k \in dots : \A o \in dots : k <= o
        ip == SubSeq(body, 1, d - 1)
        fp == SubSeq(body, d + 1, Len(body))
        tenths == 10 * TextNat(ip) + (IF Len(fp) = 0 THEN 0 ELSE DigitVal(fp[1]))
    IN  IF AllDigits(ip) /\ AllDigits(fp) /\ Len(ip) + Len(fp) > 0
        THEN [exc |-> "none", val |-> PyFloat(IF neg THEN -tenths ELSE tenths)]
        ELSE [exc |-> "ValueError", val |-> PyNone]

\* dict.get(key, default)
dict_get(d, key, default) ==
    LET hit == {i \in 1..Len(d.v) : d.v[i][1] = key}
    IN  IF hit = {} THEN default ELSE d.v[CHOOSE i \in hit : TRUE][2]

\* str.lower() of a type tag
lower(tag) == IF tag = "INT" \/ tag = "Int" THEN "int"
              ELSE IF tag = "FLOAT" \/ tag = "Float" THEN "float"
              ELSE IF tag = "STR" \/ tag = "Str" THEN "str"
              ELSE IF tag = "TEXT" \/ tag = "Text" THEN "text"
              ELSE tag

\* str(value) of a metric value (build_form's initial text)
str(value) == IF value.t = "int" THEN int_repr(value.v)
              ELSE IF value.t = "float" THEN float_repr(value.v)
              ELSE <<value.v>>

\* build_form: one field per template item, in template order, with the
\* text str(initial_values[field_name]) when there is one, else empty
build_form(template, initial_values) ==
    [i \in 1..Len(template.v) |->
        LET field_name == template.v[i][1]
            initial == dict_get(OrEmptyDict(initial_values), field_name,
                                PyNone)
        IN  <<field_name, IF IsNone(initial) THEN <<>> ELSE str(initial)>>]

\* the body of extract_values' loop for one field
extract_value(text, field_type) ==
    LET raw_value == strip(text)
        r == IF field_type = "int"
             THEN IF Len(raw_value) > 0 THEN int_of_str(raw_value)
                  ELSE [exc |-> "none", val |-> PyInt(0)]
             ELSE IF field_type = "float"
             THEN IF Len(raw_value) > 0 THEN float_of_str(raw_value)
                  ELSE [exc |-> "none", val |-> PyFloat(0)]
             ELSE [exc |-> "none", val |-> PyStr(JoinText(raw_value))]
    IN  IF r.exc = "ValueError"
        THEN IF field_type \in {"int", "float"} THEN PyInt(0)
             ELSE PyStr(JoinText(raw_value))
        ELSE r.val

extract_values(fields, template) ==
    PyDict([i \in 1..Len(fields) |->
              <<fields[i][1],
                extract_value(fields[i][2],
                              lower(dict_get(template, fields[i][1],
                                             PyStr("str")).v))>>])

(***************************************************************************)
(* seed_default_categories call by call.  Each store call of the method    *)
(* (the SELECT of get_all_categories, then one add_category per built-in   *)
(* category) is a transaction of its own, so calls of another execution    *)
(* on the same file can come between them.  An execution is [pc, entered,  *)
(* skipped, exc]: pc 0 before the emptiness check, i in 1..6 before the    *)
(* i-th add_category, 7 when the method has returned or raised; entered:   *)
(* the check found no category; skipped: the categories whose add_category *)
(* raised DatabaseError; exc: what the method raised.                      *)
(***************************************************************************)
SeedExecutions == {1, 2}
SeedReturned == Len(default_categories) + 1

SeedingInit ==
    [p \in SeedExecutions |->
        [pc |-> 0, entered |-> FALSE, skipped |-> {}, exc |-> "none"]]

\* existing = self.get_all_categories(); if existing: return
seed_check(db, env, self) ==
    LET probe == _get_connection(db, env, StmtOk(db, 0, 0))
        existing == get_all_categories(db)
    IN  IF probe.exc # "none"
        THEN [self EXCEPT !.pc = SeedReturned, !.exc = probe.exc]
        ELSE IF Len(existing) > 0 THEN [self EXCEPT !.pc = SeedReturned]
        ELSE [self EXCEPT !.pc = 1, !.entered = TRUE]

seed_try_add_propagates(db, env, i) ==
    LET cat == default_categories[i]
        r == add_category(db, env, cat.name, cat.icon, cat.template)
    IN  Outcome(r.db, FALSE, r.exc)

\* one turn of the loop: try: add_category(...) except DatabaseError: pass.
\* ret tells whether the except branch ran
seed_try_add(db, env, i) ==
    LET cat == default_categories[i]
        r == add_category(db, env, cat.name, cat.icon, cat.template)
    IN  IF r.exc = "DatabaseError" THEN Outcome(r.db, TRUE, "none")
        ELSE Outcome(r.db, FALSE, r.exc)

\* the execution after its i-th turn with outcome r
seed_next(self, r) ==
    IF r.exc # "none" THEN [self EXCEPT !.pc = SeedReturned, !.exc = r.exc]
    ELSE [self EXCEPT !.pc = @ + 1,
                      !.skipped = IF r.ret THEN @ \cup {self.pc} ELSE @]

(***************************************************************************)
(* EditLogScreen.  The screen is the record edit_log_screen: log_id,       *)
(* log_data, current_template, current_fields (as in build_form) and       *)
(* custom_fields are the attributes of the class; activity_field and       *)
(* notes_field are the texts of the two widgets; a custom field is         *)
(* [key_field, value_field, _original_key], the texts of its two inputs    *)
(* and the attribute load_log gives it.  form_of is the id of the log for  *)
(* which load_log last built the form (0: none); the code has no such      *)
(* attribute.  The widgets the .kv layout binds (form_container,           *)
(* activity_field, notes_field, category_label) are present, db_manager is *)
(* set, and no custom field has been removed.                              *)
(***************************************************************************)
\* key in d
HasKey(d, key) == \E i \in 1..Len(d.v) : d.v[i][1] = key

\* d[key] = value
dict_set(d, key, value) ==
    IF HasKey(d, key)
    THEN PyDict([i \in 1..Len(d.v) |->
                   IF d.v[i][1] = key THEN <<key, value>> ELSE d.v[i]])
    ELSE PyDict(Append(d.v, <<key, value>>))

\* the text a widget shows for a str
TextOf(s) == IF s = "" THEN <<>> ELSE <<s>>

\* key.replace("_", " ").title() of the metric keys of the model, and
\* text.lower().replace(" ", "_") of the results
KeyTitles ==
    <<<<"sets", "Sets", "sets">>, <<"reps", "Reps", "reps">>,
      <<"weight_kg", "Weight Kg", "weight_kg">>,
      <<"rest_sec", "Rest Sec", "rest_sec">>, <<"RPE", "Rpe", "rpe">>,
      <<"rpe", "Rpe", "rpe">>,
      <<"duration_min", "Duration Min", "duration_min">>>>

title(key) ==
    KeyTitles[CHOOSE i \in 1..Len(KeyTitles) : KeyTitles[i][1] = key][2]

snake(text) ==
    IF text = "" THEN ""
    ELSE KeyTitles[CHOOSE i \in 1..Len(KeyTitles) : KeyTitles[i][2] = text][3]

\* what load_log does once log_data and category are there
load_form(self, log_data, category) ==
    LET existing_metrics == log_data.metrics
        custom == SelectSeq(existing_metrics.v,
                            LAMBDA kv : ~HasKey(category.template, kv[1]))
    IN  [self EXCEPT
            !.activity_field = TextOf(log_data.activity_name.v),
            !.notes_field = IF IsNone(log_data.notes) THEN <<>>
                            ELSE TextOf(log_data.notes.v),
            !.current_template = category.template,
            !.current_fields = build_form(category.template,
                                          existing_metrics),
            !.custom_fields =
                [i \in 1..Len(custom) |->
                    [key_field |-> TextOf(title(custom[i][1])),
                     value_field |-> str(custom[i][2]),
                     _original_key |-> custom[i][1]]],
            !.form_of = log_data.id]

load_log(db, self, log_id) ==
    LET log_data == get_log(db, log_id)
        s1 == [self EXCEPT !.log_id = log_id, !.log_data = log_data,
                           !.custom_fields = <<>>]
        category == IF IsNone(log_data) THEN PyNone
                    ELSE get_category(db, log_data.category_id.v)
    IN  IF IsNone(log_data) THEN s1
        ELSE IF IsNone(category) THEN s1
        ELSE load_form(s1, log_data, category)

\* the value save_log makes of the text of a custom field
custom_value(raw_value) ==
    LET r == IF \E i \in 1..Len(raw_value) : raw_value[i] = "."
             THEN float_of_str(raw_value) ELSE int_of_str(raw_value)
    IN  IF r.exc = "none" THEN r.val ELSE PyStr(JoinText(raw_value))

\* the loop of save_log over custom_fields
RECURSIVE add_custom_values(_, _)
add_custom_values(metrics, custom_fields) ==
    IF custom_fields = <<>> THEN metrics
    ELSE LET custom_field == Head(custom_fields)
             typed == snake(JoinText(strip(custom_field.key_field)))
             field_name == IF typed = "" THEN "custom" ELSE typed
         IN  add_custom_values(
                 dict_set(metrics, field_name,
                          custom_value(custom_field.value_field)),
                 Tail(custom_fields))

save_log_passes_empty_notes(db, env, self) ==
    LET typed == JoinText(strip(self.activity_field))
        activity_name == IF typed = "" THEN self.log_data.activity_name
                         ELSE PyStr(typed)
        metrics == add_custom_values(
                       extract_values(self.current_fields,
                                      self.current_template),
                       self.custom_fields)
        notes == JoinText(strip(self.notes_field))
        r == update_log(db, env, self.log_id, activity_name, metrics,
                        PyStr(notes))
    IN  IF IsNone(self.log_data) THEN Outcome(db, FALSE, "none")
        ELSE Outcome(r.db, r.exc = "none", "none")

\* save_log: False when nothing is loaded or update_log raises (except
\* Exception), else True, whatever update_log returned
save_log(db, env, self) ==
    LET typed == JoinText(strip(self.activity_field))
        activity_name == IF typed = "" THEN self.log_data.activity_name
                         ELSE PyStr(typed)
        metrics == add_custom_values(
                       extract_values(self.current_fields,
                                      self.current_template),
                       self.custom_fields)
        notes == JoinText(strip(self.notes_field))
        r == update_log(db, env, self.log_id, activity_name, metrics,
                        IF notes = "" THEN PyNone ELSE PyStr(notes))
    IN  IF IsNone(self.log_data) THEN Outcome(db, FALSE, "none")
        ELSE Outcome(r.db, r.exc = "none", "none")

(***************************************************************************)
(* HomeScreen.  The screen is the record home: active_filter, _all_logs,   *)
(* _cached_categories and _filters_need_refresh are the attributes of the  *)
(* class; filter_container is the filter_text of the chips it holds, in    *)
(* order; logs_container tells whether it holds the EmptyStateWidget and   *)
(* gives the ids of the logs in its date groups.  The two containers are   *)
(* bound and db_manager is set.                                            *)
(***************************************************************************)
HomeRecentLimit == 100

\* the category names of a list of logs: log.get("category_name"), if cat
LogCategories(logs) ==
    {logs[i].category_name.v :
        i \in {k \in 1..Len(logs) :
                 /\ ~IsNone(logs[k].category_name)
                 /\ logs[k].category_name.v # ""}}

\* sorted() of category names
RECURSIVE sorted(_)
sorted(names) ==
    IF names = {} THEN <<>>
    ELSE LET m == CHOOSE n \in names :
                     \A o \in names : NameRank(PyStr(n)) <= NameRank(PyStr(o))
         IN  <<m>> \o sorted(names \ {m})

_refresh_filters(self) ==
    [self EXCEPT !.filter_container =
                    <<"All">> \o sorted(LogCategories(self._all_logs))]

_display_filtered_logs(self) ==
    LET filtered_logs ==
            IF self.active_filter # ""
            THEN SelectSeq(self._all_logs,
                           LAMBDA log :
                              log.category_name = PyStr(self.active_filter))
            ELSE self._all_logs
    IN  [self EXCEPT !.logs_container =
            [EmptyStateWidget |-> filtered_logs = <<>>,
             logs |-> [i \in 1..Len(filtered_logs) |-> filtered_logs[i].id]]]

_on_filter_tap(self, filter_text) ==
    LET s1 == [self EXCEPT !.active_filter = IF filter_text = "All" THEN ""
                                             ELSE filter_text]
    IN  IF self.active_filter # s1.active_filter
        THEN _display_filtered_logs(s1) ELSE s1

\* refresh_logs, logs being what get_recent_logs(limit=100) returns
refresh_logs(self, logs) ==
    LET s1 == [self EXCEPT !._all_logs = logs]
        new_categories == LogCategories(logs)
        s2 == IF new_categories # s1._cached_categories
              THEN [s1 EXCEPT !._cached_categories = new_categories,
                              !._filters_need_refresh = TRUE]
              ELSE s1
        s3 == IF s2._filters_need_refresh
              THEN [_refresh_filters(s2) EXCEPT !._filters_need_refresh = FALSE]
              ELSE s2
    IN  _display_filtered_logs(s3)

(***************************************************************************)
(* SwipeableLogCard (ui/components/log_card.py).  A touch is a record      *)
(* [x, y] of whole pixels.  Fractions of a pixel only arise from the two   *)
(* factors 0.175 and 1.2, so the threshold, the largest offset and         *)
(* card_offset are kept in thousandths of a pixel and a displacement dx is *)
(* compared as 1000 * dx.  The fields touch_x, touch_y and grab_current    *)
(* are the position of the touch at its latest down or move event and      *)
(* whether the card has grabbed it; touching says that the finger is on    *)
(* the screen; released is the branch the latest on_touch_up took.         *)
(***************************************************************************)
\* SWIPE_THRESHOLD = 0.175, in thousandths
SWIPE_THRESHOLD == 175

\* the window the card is shown in
Window == [width |-> 400]

\* density-independent pixels at density 1
dp(value) == value

abs(x) == IF x < 0 THEN 0 - x ELSE x

\* Window.width * SWIPE_THRESHOLD, in thousandths of a pixel
threshold_px == Window.width * SWIPE_THRESHOLD

\* threshold_px * 1.2, in thousandths of a pixel
max_swipe == (threshold_px * 12) \div 10

_vibrate(self) ==
    IF ~self._vibrated THEN [self EXCEPT !._vibrated = TRUE] ELSE self

\* the touch lands on the card (collide_point holds)
on_touch_down(self, touch) ==
    [self EXCEPT !._touch_start_x = touch.x, !._touch_start_y = touch.y,
                 !._is_swiping = FALSE, !._swipe_direction = "None",
                 !._threshold_reached = FALSE, !._vibrated = FALSE,
                 !.grab_current = TRUE, !.touching = TRUE,
                 !.touch_x = touch.x, !.touch_y = touch.y,
                 !.released = "None"]

\* the part of on_touch_move that runs while _is_swiping holds
swipe_move(self, dx) ==
    IF self._swipe_direction = "right" /\ dx > 0
    THEN LET s == [self EXCEPT !.card_offset =
                       IF 1000 * dx <= max_swipe THEN 1000 * dx
                       ELSE max_swipe]
         IN  IF 1000 * dx >= threshold_px /\ ~s._threshold_reached
             THEN _vibrate([s EXCEPT !._threshold_reached = TRUE])
             ELSE IF 1000 * dx < threshold_px
             THEN [s EXCEPT !._threshold_reached = FALSE]
             ELSE s
    ELSE IF self._swipe_direction = "left" /\ dx < 0
    THEN LET s == [self EXCEPT !.card_offset =
                       IF 1000 * dx >= 0 - max_swipe THEN 1000 * dx
                       ELSE 0 - max_swipe]
         IN  IF 1000 * abs(dx) >= threshold_px /\ ~s._threshold_reached
             THEN _vibrate([s EXCEPT !._threshold_reached = TRUE])
             ELSE IF 1000 * abs(dx) < threshold_px
             THEN [s EXCEPT !._threshold_reached = FALSE]
             ELSE s
    ELSE self

on_touch_move(self, touch) ==
    LET at == [self EXCEPT !.touch_x = touch.x, !.touch_y = touch.y]
        dx == touch.x - self._touch_start_x
        dy == touch.y - self._touch_start_y
        horizontal == abs(dx) > dp(10) /\ 2 * abs(dx) > 3 * abs(dy)
    IN  IF ~self.grab_current THEN at
        ELSE IF ~self._is_swiping /\ horizontal
        THEN swipe_move([at EXCEPT !._is_swiping = TRUE,
                                   !._swipe_direction =
                                       IF dx > 0 THEN "right" ELSE "left"],
                        dx)
        ELSE IF ~self._is_swiping /\ abs(dy) > dp(10)
        THEN [at EXCEPT !.grab_current = FALSE]
        ELSE IF self._is_swiping THEN swipe_move(at, dx)
        ELSE at

\* both animations on_touch_up starts leave card_offset at 0:
\* _animate_snap_back runs to 0, _animate_complete_swipe sets it to 0 when it
\* completes and then calls the callback
on_touch_up(self) ==
    IF ~self.grab_current THEN [self EXCEPT !.touching = FALSE]
    ELSE [self EXCEPT !.grab_current = FALSE, !.touching = FALSE,
                      !.released =
                          IF self._is_swiping /\ self._threshold_reached
                          THEN IF self._swipe_direction = "right"
                               THEN "_trigger_edit"
                               ELSE "_trigger_delete"
                          ELSE "_animate_snap_back",
                      !.card_offset = 0,
                      !._is_swiping = FALSE, !._swipe_direction = "None"]

(***************************************************************************)
(* EditLogScreen, HomeScreen and SwipeableLogCard as constructed.          *)
(***************************************************************************)
EditLogScreen__init__ ==
    [log_id |-> 0, log_data |-> PyNone, current_template |-> PyDict(<<>>),
     current_fields |-> <<>>, custom_fields |-> <<>>,
     activity_field |-> <<>>, notes_field |-> <<>>, form_of |-> 0]

HomeScreen__init__ ==
    [active_filter |-> "", _all_logs |-> <<>>, _cached_categories |-> {},
     _filters_need_refresh |-> TRUE, filter_container |-> <<>>,
     logs_container |-> [EmptyStateWidget |-> FALSE, logs |-> <<>>]]

SwipeableLogCard__init__ ==
    [_touch_start_x |-> 0, _touch_start_y |-> 0, _is_swiping |-> FALSE,
     _swipe_direction |-> "None", _threshold_reached |-> FALSE,
     _vibrated |-> FALSE, card_offset |-> 0, grab_current |-> FALSE,
     touching |-> FALSE, touch_x |-> 0, touch_y |-> 0, released |-> "None"]

(***************************************************************************)
(* The state machine: one action per writing method of DatabaseManager,    *)
(* called with arguments drawn from the given sets.  The reading methods   *)
(* do not change the database and are the get_ operators above.            *)
(***************************************************************************)
CurDb == Db(categories, seq_categories, health_logs, seq_health_logs)

\* the fields an update call supplies (those that are not None): the columns
\* update_category and update_log collect in `updates`
SuppliedFields(args) == {k \in DOMAIN args : ~IsNone(args[k])}

\* the state after a call with outcome r; noop: it was an update call that
\* supplied no field
Apply(r, op, noop) ==
    /\ categories' = r.db.categories
    /\ seq_categories' = r.db.seq_categories
    /\ health_logs' = r.db.health_logs
    /\ seq_health_logs' = r.db.seq_health_logs
    /\ last' = [op |-> op, noop |-> noop, ret |-> r.ret,
                exc |-> r.exc]
    /\ UNCHANGED <<current_template, current_fields, seeding,
                   edit_log_screen, home, card>>

SeedCount == Len(default_categories)
MaxCategoryId == SeedCount + MaxExtraCategories
\* the ids update and delete calls name: 0 never exists
CategoryIdArgs == {0, 1, 2}
LogIdArgs == 0..MaxLogs

Init ==
    /\ categories = {}
    /\ seq_categories = 0
    /\ health_logs = {}
    /\ seq_health_logs = 0
    /\ last = [op |-> "init", noop |-> FALSE, ret |-> PyNone, exc |-> "none"]
    /\ current_template = PyDict(<<>>)
    /\ current_fields = <<>>
    /\ seeding = SeedingInit
    /\ edit_log_screen = EditLogScreen__init__
    /\ home = HomeScreen__init__
    /\ card = SwipeableLogCard__init__

Call_add_category(envs, names, icons, templates) ==
    /\ seq_categories < MaxCategoryId
    /\ \E env \in envs, name \in names, icon \in icons,
          template \in templates :
          Apply(add_category(CurDb, env, name, icon, template),
                "add_category", FALSE)

Call_update_category(envs, names, icons, templates) ==
    \E env \in envs, id \in CategoryIdArgs, name \in names, icon \in icons,
       template \in templates :
       Apply(update_category(CurDb, env, id, name, icon, template),
             "update_category",
             SuppliedFields([name |-> name, icon |-> icon,
                             template |-> template]) = {})

Call_delete_category(envs) ==
    \E env \in envs, id \in CategoryIdArgs :
       Apply(delete_category(CurDb, env, id), "delete_category", FALSE)

Call_seed_default_categories(envs) ==
    /\ categories = {} => seq_categories + SeedCount <= MaxCategoryId
    /\ \E env \in envs :
          Apply(seed_default_categories(CurDb, env),
                "seed_default_categories", FALSE)

\* calls: the argument lists to choose from; clock: the readings
\* datetime.now() may give; cap: the largest id the table may give
Call_add_log(envs, calls, clock, cap) ==
    /\ seq_health_logs < cap
    /\ \E env \in envs, c \in calls :
          \E now \in IF IsNone(c.timestamp) THEN clock ELSE {c.timestamp} :
             Apply(add_log(CurDb, env, c.category_id, c.activity_name,
                           c.metrics, c.notes, c.timestamp, now),
                   "add_log", FALSE)

Call_update_log(envs, ids, names, metricss, notess) ==
    \E env \in envs, id \in ids, activity_name \in names,
       metrics \in metricss, notes \in notess :
       Apply(update_log(CurDb, env, id, activity_name, metrics, notes),
             "update_log",
             SuppliedFields([activity_name |-> activity_name,
                             metrics |-> metrics, notes |-> notes]) = {})

Call_delete_log(envs, ids) ==
    \E env \in envs, id \in ids :
       Apply(delete_log(CurDb, env, id), "delete_log", FALSE)

(***************************************************************************)
(* Spec: the categories table and the logs that refer to it, with few      *)
(* values for each argument.  Logs are added and deleted here; SpecFaults  *)
(* and SpecLogs also update them.                                          *)
(***************************************************************************)
DefaultIcon == PyStr("checkbox-blank-circle")
YogaTemplate == Template(<<<<"minutes", "int">>, <<"level", "str">>>>)
BenchMetrics == PyDict(<<<<"reps", PyInt(12)>>, <<"weight_kg", PyFloat(600)>>>>)

AddNames == {PyStr("Yoga")}
AddIcons == {DefaultIcon}
AddTemplates == {PyNone, YogaTemplate}
NewNames == {PyNone, PyStr("Cardio")}
NewIcons == {PyNone, PyStr("star")}
NewTemplates == {PyNone}
LogCalls ==
    [category_id : {PyInt(1), PyInt(2)},
     activity_name : {PyStr("Bench Press"), PyNone},
     metrics : {BenchMetrics}, notes : {PyNone}, timestamp : {PyNone}]
Clock == {PyDatetime(10, 5)}
NewLogNames == {PyNone}
NewLogMetrics == {PyNone}
NewLogNotes == {PyNone, PyStr("edited")}

Next ==
    \/ Call_add_category({"none"}, AddNames, AddIcons, AddTemplates)
    \/ Call_update_category({"none"}, NewNames, NewIcons, NewTemplates)
    \/ Call_delete_category({"none"})
    \/ Call_seed_default_categories({"none"})
    \/ Call_add_log({"none"}, LogCalls, Clock, MaxLogs)
    \/ Call_delete_log({"none"}, LogIdArgs)

Spec == Init /\ [][Next]_vars

(***************************************************************************)
(* SpecCatalog: the categories are maintained (added, renamed, given a new *)
(* icon or template, deleted) while logs that refer to them are added.     *)
(***************************************************************************)
CatalogNewTemplates == {PyNone, YogaTemplate}
CatalogLogCalls == {c \in LogCalls : ~IsNone(c.activity_name)}

NextCatalog ==
    \/ Call_add_category({"none"}, AddNames, AddIcons, AddTemplates)
    \/ Call_update_category({"none"}, NewNames, NewIcons, CatalogNewTemplates)
    \/ Call_delete_category({"none"})
    \/ Call_seed_default_categories({"none"})
    \/ Call_add_log({"none"}, CatalogLogCalls, Clock, MaxLogs)

SpecCatalog == Init /\ [][NextCatalog]_vars

(***************************************************************************)
(* SpecFaults: the same calls, each in any environment.                    *)
(***************************************************************************)
NextFaults ==
    \/ Call_add_category(Environments, AddNames, AddIcons, AddTemplates)
    \/ Call_update_category(Environments, NewNames, NewIcons, NewTemplates)
    \/ Call_delete_category(Environments)
    \/ Call_seed_default_categories(Environments)
    \/ Call_add_log(Environments, LogCalls, Clock, MaxLogs)
    \/ Call_update_log(Environments, LogIdArgs, NewLogNames, NewLogMetrics,
                       NewLogNotes)
    \/ Call_delete_log(Environments, LogIdArgs)

SpecFaults == Init /\ [][NextFaults]_vars

(***************************************************************************)
(* SpecLogs: the health_logs table, with metrics of every value type and   *)
(* timestamps on both sides of each digit boundary of the ISO text.        *)
(***************************************************************************)
RunMetrics ==
    PyDict(<<<<"duration_min", PyInt(30)>>, <<"distance_km", PyFloat(50)>>>>)
WeightMetrics ==
    PyDict(<<<<"weight_kg", PyFloat(625)>>, <<"change", PyInt(-1)>>,
             <<"unit", PyStr("kg")>>>>)
TextMetrics ==
    PyDict(<<<<"size", PyStr("5")>>, <<"mark", PyStr("\"")>>,
             <<"path", PyStr("\\")>>, <<"blank", PyStr("")>>,
             <<"ratio", PyFloat(-5)>>>>)

WideLogCall(metrics, notes, timestamp) ==
    [category_id |-> PyInt(1), activity_name |-> PyStr("Morning Run"),
     metrics |-> metrics, notes |-> notes, timestamp |-> timestamp]

WideLogCalls ==
    {WideLogCall(RunMetrics, PyNone, PyDatetime(9, 0)),
     WideLogCall(WeightMetrics, PyStr("felt strong"), PyDatetime(10, 0)),
     WideLogCall(TextMetrics, PyNone, PyDatetime(10, 500000)),
     WideLogCall(PyDict(<<>>), PyNone, PyDatetime(59, 999999)),
     WideLogCall(PyNone, PyNone, PyNone)}
WideClock == {PyDatetime(10, 5)}
WideUpdateIds == {0, 1}
WideNewNames == {PyNone, PyStr("Evening Run")}
WideNewMetrics == {PyNone, PyDict(<<>>), RunMetrics}
WideNewNotes == {PyNone, PyStr("edited")}

WideLogIdArgs == 0..MaxWideLogs

NextLogs ==
    \/ Call_seed_default_categories({"none"})
    \/ Call_add_log({"none"}, WideLogCalls, WideClock, MaxWideLogs)
    \/ Call_update_log({"none"}, WideUpdateIds, WideNewNames, WideNewMetrics,
                       WideNewNotes)
    \/ Call_delete_log({"none"}, WideLogIdArgs)

SpecLogs == Init /\ [][NextLogs]_vars

(***************************************************************************)
(* SpecListing: logs of two categories with timestamps in any order are    *)
(* added and deleted, and the listing methods read them.                   *)
(***************************************************************************)
ListingTimes ==
    {PyDatetime(9, 0), PyDatetime(9, 500000), PyDatetime(10, 0),
     PyDatetime(10, 500000), PyDatetime(59, 999999), PyNone}

ListingLogCalls ==
    [category_id : {PyInt(1), PyInt(2)}, activity_name : {PyStr("Walk")},
     metrics : {PyNone}, notes : {PyNone}, timestamp : ListingTimes]

NextListing ==
    \/ Call_add_log({"none"}, ListingLogCalls, WideClock, MaxWideLogs)
    \/ Call_delete_log({"none"}, WideLogIdArgs)

SpecListing == Init /\ [][NextListing]_vars


(***************************************************************************)
(* SpecForm: the log screen's form.  A category is selected (build_form),  *)
(* the texts of the fields change, and the form is read (extract_values).  *)
(***************************************************************************)
FormTemplates ==
    {Template(<<<<"reps", "int">>, <<"weight_kg", "float">>,
                <<"mood", "str">>>>),
     Template(<<<<"glasses", "INT">>, <<"note", "text">>>>),
     Template(<<<<"hours", "Float">>, <<"flag", "bool">>>>)}

FormInitialValues ==
    {PyNone, PyDict(<<<<"weight_kg", PyInt(0)>>, <<"reps", PyInt(12)>>>>),
     PyDict(<<<<"hours", PyFloat(75)>>>>)}

FormTexts ==
    {<<>>, <<" ">>, <<"1", "2">>, <<" ", "7", " ">>, <<"-", "3">>,
     <<"+", "4">>, <<"2", ".", "5">>, <<".", "5">>, <<"3", ".">>, <<".">>,
     <<"-">>, <<"o", "k">>}

\* on_category_selected / the edit screen: the form of a template
Call_build_form ==
    /\ \E template \in FormTemplates, initial_values \in FormInitialValues :
          /\ current_template' = template
          /\ current_fields' = build_form(template, initial_values)
    /\ last' = [op |-> "build_form", noop |-> FALSE, ret |-> PyNone,
                exc |-> "none"]
    /\ UNCHANGED <<categories, seq_categories, health_logs, seq_health_logs,
                   seeding, edit_log_screen, home, card>>

\* the text of one field's value_field changes
SetText ==
    /\ \E i \in 1..Len(current_fields), text \in FormTexts :
          current_fields' = [current_fields EXCEPT ![i][2] = text]
    /\ last' = [op |-> "set_text", noop |-> FALSE, ret |-> PyNone,
                exc |-> "none"]
    /\ UNCHANGED <<categories, seq_categories, health_logs, seq_health_logs,
                   current_template, seeding, edit_log_screen, home, card>>

Call_extract_values ==
    /\ last' = [op |-> "extract_values", noop |-> FALSE,
                ret |-> extract_values(current_fields, current_template),
                exc |-> "none"]
    /\ UNCHANGED <<categories, seq_categories, health_logs, seq_health_logs,
                   current_template, current_fields, seeding, edit_log_screen,
                   home, card>>

NextForm ==
    \/ Call_build_form
    \/ SetText
    \/ Call_extract_values

SpecForm == Init /\ [][NextForm]_vars

(***************************************************************************)
(* SpecSeeding: two executions of seed_default_categories on one store,    *)
(* their store calls in any order, each call in any environment.           *)
(* SpecSeedRace: the same with a store that works.                         *)
(***************************************************************************)
DbUnchanged == UNCHANGED <<categories, seq_categories, health_logs, seq_health_logs>>

Step_seed_check(p, envs) ==
    /\ seeding[p].pc = 0
    /\ \E env \in envs :
          /\ seeding' = [seeding EXCEPT
                            ![p] = seed_check(CurDb, env, seeding[p])]
          /\ last' = [op |-> "seed_check", noop |-> FALSE, ret |-> PyNone,
                      exc |-> seeding'[p].exc]
    /\ DbUnchanged
    /\ UNCHANGED <<current_template, current_fields, edit_log_screen, home,
                   card>>

Step_seed_try_add(p, envs) ==
    /\ seeding[p].pc \in 1..Len(default_categories)
    /\ \E env \in envs :
          LET r == seed_try_add(CurDb, env, seeding[p].pc)
          IN  /\ categories' = r.db.categories
              /\ seq_categories' = r.db.seq_categories
              /\ seeding' = [seeding EXCEPT ![p] = seed_next(seeding[p], r)]
              /\ last' = [op |-> "seed_try_add", noop |-> FALSE,
                          ret |-> PyNone, exc |-> r.exc]
    /\ UNCHANGED <<health_logs, seq_health_logs, current_template,
                   current_fields, edit_log_screen, home, card>>

NextSeeding ==
    \/ \E p \in SeedExecutions : Step_seed_check(p, Environments)
    \/ \E p \in SeedExecutions : Step_seed_try_add(p, Environments)

SpecSeeding == Init /\ [][NextSeeding]_vars

NextSeedRace ==
    \/ \E p \in SeedExecutions : Step_seed_check(p, {"none"})
    \/ \E p \in SeedExecutions : Step_seed_try_add(p, {"none"})

SpecSeedRace == Init /\ [][NextSeedRace]_vars

(***************************************************************************)
(* SpecEdit: logs of categories that exist and of categories that were     *)
(* deleted are loaded into the edit screen, the user changes texts, and    *)
(* the screen saves; update_log is also called directly.                   *)
(***************************************************************************)
MaxEditLogs == 2

BenchFullMetrics ==
    PyDict(<<<<"sets", PyInt(3)>>, <<"reps", PyInt(12)>>,
             <<"weight_kg", PyFloat(600)>>, <<"rest_sec", PyInt(90)>>>>)
RepsOnlyMetrics == PyDict(<<<<"reps", PyInt(12)>>>>)
EffortMetrics ==
    PyDict(<<<<"duration_min", PyInt(30)>>, <<"RPE", PyStr("7")>>>>)

EditLogCalls ==
    {[category_id |-> PyInt(1), activity_name |-> PyStr("Bench Press"),
      metrics |-> BenchFullMetrics, notes |-> PyStr("felt strong"),
      timestamp |-> PyNone],
     [category_id |-> PyInt(1), activity_name |-> PyStr("Squat"),
      metrics |-> RepsOnlyMetrics, notes |-> PyNone, timestamp |-> PyNone],
     [category_id |-> PyInt(2), activity_name |-> PyStr("Morning Run"),
      metrics |-> EffortMetrics, notes |-> PyStr("windy"),
      timestamp |-> PyNone]}

EditLogIdArgs == 0..MaxEditLogs
EditNotesTexts == {<<>>, <<"sore">>}
EditValueTexts == {<<"1", "5">>}
EditNewNotes == {PyStr(""), PyStr("edited")}

Call_load_log(ids) ==
    /\ \E log_id \in ids :
          edit_log_screen' = load_log(CurDb, edit_log_screen, log_id)
    /\ last' = [op |-> "load_log", noop |-> FALSE, ret |-> PyNone,
                exc |-> "none"]
    /\ DbUnchanged
    /\ UNCHANGED <<current_template, current_fields, seeding, home, card>>

\* the user changes the text of the notes field or of the first template
\* field
Type_text(notess, values) ==
    /\ \/ \E text \in notess :
             edit_log_screen' = [edit_log_screen EXCEPT !.notes_field = text]
       \/ \E text \in values :
             /\ Len(edit_log_screen.current_fields) > 0
             /\ edit_log_screen' =
                   [edit_log_screen EXCEPT !.current_fields[1][2] = text]
    /\ last' = [op |-> "type_text", noop |-> FALSE, ret |-> PyNone,
                exc |-> "none"]
    /\ DbUnchanged
    /\ UNCHANGED <<current_template, current_fields, seeding, home, card>>

Call_save_log(envs) ==
    \E env \in envs :
       Apply(save_log(CurDb, env, edit_log_screen), "save_log", FALSE)

NextEdit ==
    \/ Call_seed_default_categories({"none"})
    \/ Call_delete_category({"none"})
    \/ Call_add_log({"none"}, EditLogCalls, Clock, MaxEditLogs)
    \/ Call_load_log(EditLogIdArgs)
    \/ Call_save_log({"none"})

SpecEdit == Init /\ [][NextEdit]_vars

(***************************************************************************)
(* SpecNotes: the notes of a log are changed by update_log and through the *)
(* edit screen, where the user changes the texts before saving.            *)
(***************************************************************************)
MaxNotesLogs == 1

NotesLogCalls == {c \in EditLogCalls : c.activity_name = PyStr("Bench Press")}
NotesLogIdArgs == 0..MaxNotesLogs

NextNotes ==
    \/ Call_seed_default_categories({"none"})
    \/ Call_add_log({"none"}, NotesLogCalls, Clock, MaxNotesLogs)
    \/ Call_update_log({"none"}, NotesLogIdArgs, {PyNone}, {PyNone},
                       EditNewNotes)
    \/ Call_load_log(NotesLogIdArgs)
    \/ Type_text(EditNotesTexts, EditValueTexts)
    \/ Call_save_log({"none"})

SpecNotes == Init /\ [][NextNotes]_vars

(***************************************************************************)
(* SpecHome: logs of two categories are added and deleted, the home screen *)
(* is refreshed (as on every return to it) and the user taps the filter    *)
(* chips it shows.                                                         *)
(***************************************************************************)
HomeLogCalls ==
    [category_id : {PyInt(1), PyInt(2)}, activity_name : {PyStr("Walk")},
     metrics : {PyNone}, notes : {PyNone}, timestamp : {PyNone}]

Call_refresh_logs ==
    /\ \E logs \in get_recent_logs(CurDb, HomeRecentLimit) :
          home' = refresh_logs(home, logs)
    /\ last' = [op |-> "refresh_logs", noop |-> FALSE, ret |-> PyNone,
                exc |-> "none"]
    /\ DbUnchanged
    /\ UNCHANGED <<current_template, current_fields, seeding,
                   edit_log_screen, card>>

\* the user taps one of the chips of filter_container
Tap_filter_chip ==
    /\ \E i \in 1..Len(home.filter_container) :
          home' = _on_filter_tap(home, home.filter_container[i])
    /\ last' = [op |-> "_on_filter_tap", noop |-> FALSE, ret |-> PyNone,
                exc |-> "none"]
    /\ DbUnchanged
    /\ UNCHANGED <<current_template, current_fields, seeding,
                   edit_log_screen, card>>

NextHome ==
    \/ Call_seed_default_categories({"none"})
    \/ Call_add_log({"none"}, HomeLogCalls, Clock, MaxLogs)
    \/ Call_delete_log({"none"}, LogIdArgs)
    \/ Call_refresh_logs
    \/ Tap_filter_chip

SpecHome == Init /\ [][NextHome]_vars

(***************************************************************************)
(* SpecSwipe: one finger on one SwipeableLogCard.  The finger comes down   *)
(* on the card, moves any number of times to positions on either side of   *)
(* the start point, short of and beyond the threshold, and is lifted.      *)
(***************************************************************************)
TouchStarts == [x : {100}, y : {50}]

TouchMoves == [x : {20, 30, 60, 95, 100, 105, 140, 170, 190}, y : {50, 70}]

CardStep ==
    /\ last' = last
    /\ DbUnchanged
    /\ UNCHANGED <<current_template, current_fields, seeding,
                   edit_log_screen, home>>

Touch_down ==
    /\ ~card.touching
    /\ \E touch \in TouchStarts : card' = on_touch_down(card, touch)
    /\ CardStep

Touch_move ==
    /\ card.touching
    /\ \E touch \in TouchMoves : card' = on_touch_move(card, touch)
    /\ CardStep

Touch_up ==
    /\ card.touching
    /\ card' = on_touch_up(card)
    /\ CardStep

NextSwipe ==
    \/ Touch_down
    \/ Touch_move
    \/ Touch_up

SpecSwipe == Init /\ [][NextSwipe]_vars

(***************************************************************************)
(* The arguments the properties below range over.                          *)
(***************************************************************************)
AllCategoryIds == 0..(MaxCategoryId + 1)
AllLogIds == 0..(MaxWideLogs + 1)

Exists(rows, id) == \E r \in rows : r.id = id
Row(rows, id) == CHOOSE r \in rows : r.id = id

(***************************************************************************)
(* C1.  Cascade delete: when delete_category(id) returns True, no          *)
(* health_logs row has category_id = id afterwards.                        *)
(***************************************************************************)
C1_CascadeDelete ==
    \A id \in AllCategoryIds :
       LET r == delete_category(CurDb, "none", id)
       IN  (r.exc = "none" /\ r.ret = TRUE) =>
              ~\E l \in r.db.health_logs : l.category_id = PyInt(id)

(***************************************************************************)
(* C2.  Uniqueness on insert: add_category with the name of an existing    *)
(* category raises DatabaseError, adds no category and leaves the existing *)
(* rows (id, name, icon, template) as they were.                           *)
(***************************************************************************)
C2_UniqueInsert ==
    \A c \in categories, icon \in AddIcons, template \in AddTemplates :
       LET r == add_category(CurDb, "none", c.name, icon, template)
       IN  /\ r.exc = "DatabaseError"
           /\ Cardinality(r.db.categories) = Cardinality(categories)
           /\ get_category(r.db, c.id) = get_category(CurDb, c.id)

\* a duplicate add_category has just been refused
C2_Witness ==
    /\ last.op = "add_category"
    /\ last.exc = "DatabaseError"
    /\ \E c \in categories : c.name \in AddNames

(***************************************************************************)
(* C3.  Name uniqueness: no two categories ever have the same name, and an *)
(* update_category that would give a category the name of another one      *)
(* raises DatabaseError and changes nothing.                               *)
(***************************************************************************)
C3_NamesUnique ==
    /\ \A a, b \in categories : a.name = b.name => a = b
    /\ \A c, o \in categories, icon \in NewIcons, template \in NewTemplates :
          c # o =>
             LET r == update_category(CurDb, "none", c.id, o.name, icon,
                                      template)
             IN  r.exc = "DatabaseError" /\ r.db = CurDb

\* a rename to a name another category holds has just been refused
C3_Witness ==
    /\ last.op = "update_category"
    /\ last.exc = "DatabaseError"
    /\ Cardinality(categories) >= 2


(***************************************************************************)
(* C4.  Per-call atomicity: a writing call that raises leaves both tables  *)
(* as they were, and what it raises is DatabaseError.                      *)
(***************************************************************************)
WriteOps == {"add_category", "update_category", "delete_category",
             "add_log", "update_log", "delete_log"}

C4_PerCallAtomicity ==
    [][(last'.op \in WriteOps /\ last'.exc # "none") =>
          /\ last'.exc = "DatabaseError"
          /\ categories' = categories
          /\ health_logs' = health_logs]_vars

(***************************************************************************)
(* C5.  Round trip of metrics: add_log with a metrics mapping m, then      *)
(* get_log of the id returned, gives a mapping equal to m: the same keys,  *)
(* each with a value of the same type and the same value.                  *)
(***************************************************************************)
C5_MetricsRoundTrip ==
    \A c \in WideLogCalls :
       ~IsNone(c.metrics) =>
          LET r == add_log(CurDb, "none", c.category_id, c.activity_name,
                           c.metrics, c.notes, c.timestamp,
                           CHOOSE now \in WideClock : TRUE)
          IN  /\ r.exc = "none"
              /\ DictEq(get_log(r.db, r.ret).metrics, c.metrics)

\* a log whose metrics hold strings, an escaped quote and a negative float
\* has just been added and reads back as given
C5_Witness ==
    /\ last.op = "add_log"
    /\ last.exc = "none"
    /\ DictEq(get_log(CurDb, last.ret).metrics, TextMetrics)

(***************************************************************************)
(* C6.  Partial update of a log: update_log changes no field that was not  *)
(* supplied, never id, category_id or timestamp, and no other log and no   *)
(* category.                                                               *)
(***************************************************************************)
C6_PartialUpdate ==
    \A l \in health_logs :
       \A before \in {_row_to_log(l, <<>>)}, activity_name \in WideNewNames,
          metrics \in WideNewMetrics, notes \in WideNewNotes :
          \A r \in {update_log(CurDb, "none", l.id, activity_name, metrics,
                               notes)} :
             /\ r.exc = "none"
             /\ r.db.categories = categories
             /\ \E row \in r.db.health_logs \ (health_logs \ {l}) :
                   /\ r.db.health_logs \ {row} = health_logs \ {l}
                   /\ \A after \in {_row_to_log(row, <<>>)} :
                         /\ after.id = before.id
                         /\ after.category_id = before.category_id
                         /\ after.timestamp = before.timestamp
                         /\ IsNone(activity_name) =>
                               after.activity_name = before.activity_name
                         /\ IsNone(metrics) =>
                               /\ after.metrics = before.metrics
                               /\ row.metrics_json = l.metrics_json
                         /\ IsNone(notes) => after.notes = before.notes

\* log 1 has just been given new notes and still has the activity name and
\* the metrics it was added with
C6_Witness ==
    /\ last.op = "update_log"
    /\ last.exc = "none"
    /\ last.ret = TRUE
    /\ Exists(health_logs, 1)
    /\ LET l == get_log(CurDb, 1)
       IN  /\ l.notes = PyStr("edited")
           /\ l.activity_name = PyStr("Morning Run")
           /\ DictEq(l.metrics, WeightMetrics)

(***************************************************************************)
(* C7.  Recency ordering: when the logs have pairwise distinct timestamps, *)
(* get_recent_logs returns them newest first, in strictly descending       *)
(* timestamp order, whatever the order they were added in.                 *)
(***************************************************************************)
DefaultRecentLimit == 20

DistinctTimestamps ==
    \A a, b \in health_logs :
       a # b => fromisoformat(a.timestamp) # fromisoformat(b.timestamp)

C7_RecencyOrdering ==
    DistinctTimestamps =>
       \A logs \in get_recent_logs(CurDb, DefaultRecentLimit) :
          /\ Len(logs) = Cardinality(health_logs)
          /\ \A i, j \in 1..Len(logs) :
                i < j => DatetimeLess(logs[j].timestamp, logs[i].timestamp)

\* a log has just been added with a timestamp before that of a log added
\* earlier, and both are returned
C7_Witness ==
    /\ last.op = "add_log"
    /\ last.exc = "none"
    /\ DistinctTimestamps
    /\ \E a, b \in health_logs :
          a.id < b.id /\ TextLess(b.timestamp, a.timestamp)
    /\ \E logs \in get_recent_logs(CurDb, DefaultRecentLimit) : Len(logs) >= 2

(***************************************************************************)
(* C8.  Seed idempotence: on a store with no category, two calls of        *)
(* seed_default_categories in a row leave exactly the six built-in         *)
(* categories, and the second call changes nothing.                        *)
(***************************************************************************)
BuiltinNames ==
    {PyStr("Strength Training"), PyStr("Cardio"), PyStr("Meal"),
     PyStr("Sleep"), PyStr("Water Intake"), PyStr("Weight Log")}

C8_SeedIdempotent ==
    categories = {} =>
       LET first == seed_default_categories(CurDb, "none")
           second == seed_default_categories(first.db, "none")
       IN  /\ first.exc = "none" /\ second.exc = "none"
           /\ Cardinality(first.db.categories) = 6
           /\ {c.name : c \in first.db.categories} = BuiltinNames
           /\ second.db = first.db

\* the store has just been seeded: a further call is the second in a row
C8_Witness ==
    /\ last.op = "seed_default_categories"
    /\ Cardinality(categories) = 6
    /\ {c.name : c \in categories} = BuiltinNames

(***************************************************************************)
(* C9.  Seeding is guarded by emptiness: when any category exists,         *)
(* seed_default_categories inserts nothing and changes no category and no  *)
(* log; it inserts the built-in categories only into an empty table.       *)
(***************************************************************************)
C9_SeedOnlyWhenEmpty ==
    LET r == seed_default_categories(CurDb, "none")
    IN  /\ r.exc = "none"
        /\ categories # {} => r.db = CurDb
        /\ r.db.categories # categories => categories = {}

\* seed_default_categories has just returned on a store that had lost some
\* built-in categories but not all, and has put none of them back
C9_Witness ==
    /\ last.op = "seed_default_categories"
    /\ categories # {}
    /\ \E n \in BuiltinNames : ~\E c \in categories : c.name = n

(***************************************************************************)
(* C10.  Not found is a sentinel: for an id that names no row,             *)
(* get_category and get_log return None, and update_category, update_log,  *)
(* delete_category and delete_log return False, raise nothing and leave    *)
(* the store as it was.                                                    *)
(***************************************************************************)
Sentinel(r) == r.exc = "none" /\ r.ret = FALSE /\ r.db = CurDb

C10_NotFoundSentinel ==
    /\ \A id \in AllCategoryIds :
          ~Exists(categories, id) =>
             /\ IsNone(get_category(CurDb, id))
             /\ Sentinel(delete_category(CurDb, "none", id))
             /\ \A name \in NewNames, icon \in NewIcons :
                   Sentinel(update_category(CurDb, "none", id, name, icon,
                                            PyDict(<<>>)))
    /\ \A id \in AllLogIds :
          ~Exists(health_logs, id) =>
             /\ IsNone(get_log(CurDb, id))
             /\ Sentinel(delete_log(CurDb, "none", id))
             /\ \A notes \in NewLogNotes :
                   Sentinel(update_log(CurDb, "none", id, PyStr("Squat"),
                                       PyNone, notes))

\* an update or delete of an id that names no row has just returned False
C10_Witness ==
    /\ last.op \in {"update_category", "update_log", "delete_category",
                    "delete_log"}
    /\ last.exc = "none"
    /\ last.ret = FALSE
    /\ categories # {}
    /\ health_logs # {}

(***************************************************************************)
(* C11.  No-op update: update_category and update_log called with no field *)
(* supplied return False, raise nothing and leave the store as it was, for *)
(* an id that names a row and for one that names none, and also when the   *)
(* store cannot be opened or written (the call never opens it).            *)
(***************************************************************************)
C11_NoOpUpdate ==
    /\ \A id \in AllCategoryIds, env \in Environments :
          Sentinel(update_category(CurDb, env, id, PyNone, PyNone, PyNone))
    /\ \A id \in AllLogIds, env \in Environments :
          Sentinel(update_log(CurDb, env, id, PyNone, PyNone, PyNone))

\* update_log has just been called with no field on a store that holds logs
C11_Witness ==
    /\ last.op = "update_log"
    /\ last.noop
    /\ last.exc = "none"
    /\ last.ret = FALSE
    /\ health_logs # {}

(***************************************************************************)
(* C12.  Left-join annotation: get_recent_logs returns every log (up to    *)
(* the limit), each with category_name and category_icon equal to the name *)
(* and icon the category with id = category_id has now; a log whose        *)
(* category_id names no category is returned too, with both None.          *)
(***************************************************************************)
C12_LeftJoinAnnotation ==
    \A logs \in get_recent_logs(CurDb, DefaultRecentLimit) :
       /\ Len(logs) = Cardinality(health_logs)
       /\ {logs[i].id : i \in 1..Len(logs)} = {l.id : l \in health_logs}
       /\ \A i \in 1..Len(logs) :
             LET owner == {c \in categories :
                             PyInt(c.id) = logs[i].category_id}
             IN  IF owner = {}
                 THEN /\ IsNone(logs[i].category_name)
                      /\ IsNone(logs[i].category_icon)
                 ELSE \A c \in owner :
                         /\ logs[i].category_name = c.name
                         /\ logs[i].category_icon = c.icon

\* category 1 has just been renamed to Cardio; one log belongs to it and is
\* listed under the new name, another log's category does not exist
C12_Witness ==
    /\ last.op = "update_category"
    /\ ~last.noop
    /\ last.exc = "none"
    /\ last.ret = TRUE
    /\ \E c \in categories : c.id = 1 /\ c.name = PyStr("Cardio")
    /\ \E logs \in get_recent_logs(CurDb, DefaultRecentLimit) :
          \E i, j \in 1..Len(logs) :
             /\ logs[i].category_id = PyInt(1)
             /\ logs[i].category_name = PyStr("Cardio")
             /\ ~\E c \in categories : PyInt(c.id) = logs[j].category_id
             /\ IsNone(logs[j].category_name)

(***************************************************************************)
(* C13.  Limit on recent logs: when the n logs have pairwise distinct      *)
(* timestamps, get_recent_logs(limit) with limit >= 0 returns exactly      *)
(* min(limit, n) logs, and every log it leaves out is older than every log *)
(* it returns.                                                             *)
(***************************************************************************)
RecentLimits == 0..(MaxWideLogs + 1)

Min(a, b) == IF a <= b THEN a ELSE b

C13_RecentLimit ==
    DistinctTimestamps =>
       \A limit \in RecentLimits :
          \A logs \in get_recent_logs(CurDb, limit) :
             LET ids == {logs[i].id : i \in 1..Len(logs)}
             IN  /\ Len(logs) = Min(limit, Cardinality(health_logs))
                 /\ Cardinality(ids) = Len(logs)
                 /\ ids \subseteq {l.id : l \in health_logs}
                 /\ \A l \in health_logs, i \in 1..Len(logs) :
                       l.id \notin ids =>
                          DatetimeLess(fromisoformat(l.timestamp),
                                       logs[i].timestamp)

\* two logs with different timestamps, the newer one added first:
\* get_recent_logs(1) returns that one alone
C13_Witness ==
    /\ DistinctTimestamps
    /\ Cardinality(health_logs) = 2
    /\ \E a, b \in health_logs :
          /\ a.id < b.id
          /\ TextLess(b.timestamp, a.timestamp)
          /\ \E logs \in get_recent_logs(CurDb, 1) :
                Len(logs) = 1 /\ logs[1].id = a.id

(***************************************************************************)
(* C14.  Filter by category: get_logs_by_category(c, limit) returns only   *)
(* logs whose category_id is c; when limit is at least the number of such  *)
(* logs it returns all of them; and logs with different timestamps come    *)
(* newest first.                                                           *)
(***************************************************************************)
DefaultCategoryLimit == 50

C14_FilterByCategory ==
    \A c \in {PyInt(0), PyInt(1), PyInt(2)} :
       LET own == {l \in health_logs : l.category_id = c}
       IN  /\ \A logs \in get_logs_by_category(CurDb, c, DefaultCategoryLimit) :
                /\ {logs[i].id : i \in 1..Len(logs)} = {l.id : l \in own}
                /\ Len(logs) = Cardinality(own)
           /\ \A limit \in RecentLimits :
                 \A logs \in get_logs_by_category(CurDb, c, limit) :
                    /\ \A i \in 1..Len(logs) : logs[i].category_id = c
                    /\ Len(logs) = Min(limit, Cardinality(own))
                    /\ \A i, j \in 1..Len(logs) :
                          i < j => ~DatetimeLess(logs[i].timestamp,
                                                 logs[j].timestamp)

\* category 2 has two logs, the newer one added first, and no other category
\* has one: get_logs_by_category(2) lists the two, newest first, and
\* get_logs_by_category(1) lists nothing
C14_Witness ==
    \E a, b \in health_logs :
       /\ a.category_id = PyInt(2) /\ b.category_id = PyInt(2)
       /\ a.id < b.id
       /\ TextLess(b.timestamp, a.timestamp)
       /\ \E logs \in get_logs_by_category(CurDb, PyInt(2),
                                           DefaultCategoryLimit) :
             Len(logs) = 2 /\ logs[1].id = a.id /\ logs[2].id = b.id
       /\ get_logs_by_category(CurDb, PyInt(1), DefaultCategoryLimit)
             = {<<>>}

(***************************************************************************)
(* C15.  get_all_categories returns every category of the store exactly    *)
(* once, as get_category gives it, in ascending order of name, after any   *)
(* sequence of add, update, delete and seed calls.                         *)
(***************************************************************************)
C15_ListCategories ==
    \A cats \in {get_all_categories(CurDb)} :
       /\ Len(cats) = Cardinality(categories)
       /\ {cats[i].id : i \in 1..Len(cats)} = {c.id : c \in categories}
       /\ \A i \in 1..Len(cats) : cats[i] = get_category(CurDb, cats[i].id)
       /\ \A i, j \in 1..Len(cats) :
             i < j => NameRank(cats[i].name) < NameRank(cats[j].name)

\* a built-in category has been deleted and category 1 has just been renamed
\* to Cardio: it is listed first, before categories with smaller names than
\* the name it had
C15_Witness ==
    /\ last.op = "update_category"
    /\ ~last.noop
    /\ last.exc = "none"
    /\ last.ret = TRUE
    /\ Cardinality(categories) >= 3
    /\ Cardinality(categories) < seq_categories
    /\ LET cats == get_all_categories(CurDb)
       IN  cats[1].id = 1 /\ cats[1].name = PyStr("Cardio")

(***************************************************************************)
(* C16.  Partial update of a category: an update_category that succeeds    *)
(* gives each supplied field its new value and leaves the id, every field  *)
(* that was not supplied, every other category and every log as they were. *)
(***************************************************************************)
UpdateTemplates == {PyNone, PyDict(<<>>), YogaTemplate}

C16_PartialCategoryUpdate ==
    \A c \in categories :
       \A before \in {_row_to_category(c)}, name \in NewNames,
          icon \in NewIcons, template \in UpdateTemplates :
          \A r \in {update_category(CurDb, "none", c.id, name, icon,
                                    template)} :
             (r.exc = "none" /\ r.ret = TRUE) =>
                /\ r.db.health_logs = health_logs
                /\ \E row \in r.db.categories \ (categories \ {c}) :
                      /\ r.db.categories \ {row} = categories \ {c}
                      /\ \A after \in {_row_to_category(row)} :
                            /\ after.id = before.id
                            /\ after.name = IF IsNone(name) THEN before.name
                                            ELSE name
                            /\ after.icon = IF IsNone(icon) THEN before.icon
                                            ELSE icon
                            /\ after.template = IF IsNone(template)
                                                THEN before.template
                                                ELSE template
                            /\ IsNone(template) =>
                                  row.template_json = c.template_json

\* an update_category has just succeeded, and Strength Training, which has
\* been given a new icon alone, has its name and its three template fields
\* still; the store holds a log
C16_Witness ==
    /\ last.op = "update_category"
    /\ ~last.noop
    /\ last.exc = "none"
    /\ last.ret = TRUE
    /\ health_logs # {}
    /\ \E c \in categories :
          /\ c.icon = PyStr("star")
          /\ c.name = PyStr("Strength Training")
          /\ Len(_row_to_category(c).template.v) = 3

C18_AddLogRejectsMissingCategory ==
    \A id \in AllCategoryIds :
       ~Exists(categories, id) =>
          \A now \in Clock :
             LET r == add_log(CurDb, "none", PyInt(id), PyStr("Bench Press"),
                              BenchMetrics, PyNone, PyNone, now)
             IN  /\ r.exc = "DatabaseError"
                 /\ r.db.health_logs = health_logs

(***************************************************************************)
(* C19.  Round trip of templates: add_category with a template t (field    *)
(* name -> type tag, in some order), then get_category of the id returned, *)
(* gives a template with the same keys, the same tags and the same key     *)
(* order; with no template it gives the empty mapping.                     *)
(***************************************************************************)
RoundTripTemplates ==
    {PyNone, PyDict(<<>>), YogaTemplate,
     Template(<<<<"weight_kg", "float">>, <<"reps", "int">>,
                <<"notes", "text">>, <<"sets", "int">>>>)}
    \cup {default_categories[i].template : i \in 1..Len(default_categories)}

C19_TemplateRoundTrip ==
    \A name \in AddNames, t \in RoundTripTemplates :
       (~\E c \in categories : c.name = name) =>
          LET r == add_category(CurDb, "none", name, DefaultIcon, t)
          IN  /\ r.exc = "none"
              /\ get_category(r.db, r.ret).template
                    = IF IsNone(t) THEN PyDict(<<>>) ELSE t

\* a category has just been added with a template of two fields whose order
\* is not alphabetical, and reads back with them in the order given
C19_Witness ==
    /\ last.op = "add_category"
    /\ last.exc = "none"
    /\ Exists(categories, last.ret)
    /\ get_category(CurDb, last.ret).template = YogaTemplate
    /\ Len(YogaTemplate.v) = 2

(***************************************************************************)
(* C20.  Form value coercion: extract_values returns one entry per form    *)
(* field, keyed by the template's field names; the value of a field tagged *)
(* int is an int, of a field tagged float a float, of any other field the  *)
(* stripped text; an empty int field gives 0 and an empty float field 0.0. *)
(***************************************************************************)
C20_FormValueCoercion ==
    last.op = "extract_values" =>
       LET values == last.ret.v
       IN  /\ Len(values) = Len(current_fields)
           /\ Len(values) = Len(current_template.v)
           /\ \A i \in 1..Len(values) :
                 LET tag == lower(current_template.v[i][2].v)
                     raw == strip(current_fields[i][2])
                     value == values[i][2]
                 IN  /\ values[i][1] = current_fields[i][1]
                     /\ values[i][1] = current_template.v[i][1]
                     /\ IF tag = "int"
                        THEN /\ value.t = "int"
                             /\ Len(raw) = 0 => value = PyInt(0)
                        ELSE IF tag = "float"
                        THEN /\ value.t = "float"
                             /\ Len(raw) = 0 => value = PyFloat(0)
                        ELSE value = PyStr(JoinText(raw))

(***************************************************************************)
(* C21.  update_log replaces the metrics wholesale: after a successful     *)
(* update_log(id, metrics = m), get_log(id).metrics equals m, so a key the *)
(* log had before and m has not is gone, also when m is the empty mapping. *)
(***************************************************************************)
DictKeys(d) == {d.v[i][1] : i \in 1..Len(d.v)}

C21_MetricsReplaced ==
    \A l \in health_logs, m \in WideNewMetrics \ {PyNone} :
       \A r \in {update_log(CurDb, "none", l.id, PyNone, m, PyNone)} :
          /\ r.exc = "none"
          /\ r.ret = TRUE
          /\ \A after \in {get_log(r.db, l.id).metrics} :
                /\ DictEq(after, m)
                /\ DictKeys(after) = DictKeys(m)

\* the log added with weight_kg, change and unit has been given the empty
\* mapping, and none of its keys is left
C21_Witness ==
    /\ last.op = "update_log"
    /\ last.exc = "none"
    /\ Exists(health_logs, 1)
    /\ LET l == get_log(CurDb, 1)
       IN  /\ l.notes = PyStr("felt strong")
           /\ l.metrics = PyDict(<<>>)

(***************************************************************************)
(* C22.  seed_default_categories swallows the DatabaseError of an          *)
(* add_category of its loop: it does not raise it, it goes on with the     *)
(* categories that follow, and when it returns every built-in category     *)
(* whose add_category did not fail is in the table.                        *)
(***************************************************************************)
BuiltinName(i) == default_categories[i].name

C22_SeedSwallowsInsertFailure ==
    \A p \in SeedExecutions :
       \A self \in {seeding[p]} :
          /\ self.entered => self.exc # "DatabaseError"
          /\ self.skipped # {} /\ self.exc = "none" =>
                \A i \in self.skipped : self.pc > i
          /\ (self.pc = SeedReturned /\ self.entered /\ self.exc = "none") =>
                \A i \in (1..Len(default_categories)) \ self.skipped :
                   \E c \in categories : c.name = BuiltinName(i)

\* an execution has returned normally after two add_category calls failed,
\* the first because the statement could not run (that category is absent),
\* the last because the name was there already, and with calls in between
\* and after that added their category
C22_Witness ==
    \E p \in SeedExecutions :
       /\ seeding[p].pc = SeedReturned
       /\ seeding[p].exc = "none"
       /\ seeding[p].skipped = {2, 5}
       /\ ~\E c \in categories : c.name = BuiltinName(2)
       /\ \E c \in categories : c.name = BuiltinName(5)
       /\ Cardinality(categories) = 5

(***************************************************************************)
(* C23.  delete_log(id) of an existing log returns True and removes that   *)
(* log only: every other log and every category stays as it was, get_log   *)
(* of the id then returns None, and a second delete_log(id) returns False. *)
(***************************************************************************)
C23_DeleteLogFrame ==
    \A l \in health_logs :
       \A r \in {delete_log(CurDb, "none", l.id)} :
          /\ r.exc = "none"
          /\ r.ret = TRUE
          /\ r.db.health_logs = health_logs \ {l}
          /\ \A o \in health_logs \ {l} :
                get_log(r.db, o.id) = get_log(CurDb, o.id)
          /\ r.db.categories = categories
          /\ IsNone(get_log(r.db, l.id))
          /\ \A again \in {delete_log(r.db, "none", l.id)} :
                /\ again.exc = "none"
                /\ again.ret = FALSE
                /\ again.db = r.db

\* one of two logs of the same category has just been deleted, the other
\* and the categories are there
C23_Witness ==
    /\ last.op = "delete_log"
    /\ last.exc = "none"
    /\ last.ret = TRUE
    /\ seq_health_logs = 2
    /\ Cardinality(health_logs) = 1
    /\ categories # {}
    /\ \A l \in health_logs : l.category_id = PyInt(1)

(***************************************************************************)
(* C24.  Ids are never reused.  sqlite_sequence holds the largest id a     *)
(* table ever gave: it never decreases, no row has a larger id, the id     *)
(* add_category (add_log) returns is larger, hence different from every id *)
(* returned before, and an id given before that names no row any more      *)
(* never names a row again.                                                *)
(***************************************************************************)
C24_IdsNeverReused ==
    [][/\ \A c \in categories : c.id <= seq_categories
       /\ \A l \in health_logs : l.id <= seq_health_logs
       /\ seq_categories' >= seq_categories
       /\ seq_health_logs' >= seq_health_logs
       /\ \A c \in categories' :
             c.id <= seq_categories => Exists(categories, c.id)
       /\ \A l \in health_logs' :
             l.id <= seq_health_logs => Exists(health_logs, l.id)
       /\ (last'.op = "add_category" /\ last'.exc = "none") =>
             /\ last'.ret > seq_categories
             /\ Exists(categories', last'.ret)
       /\ (last'.op = "add_log" /\ last'.exc = "none") =>
             /\ last'.ret > seq_health_logs
             /\ Exists(health_logs', last'.ret)]_vars

\* log 1 was deleted, and the log added after that has been given id 2;
\* category 1 was deleted too and its id is still free
C24_Witness ==
    /\ last.op = "add_log"
    /\ last.exc = "none"
    /\ last.ret = 2
    /\ ~Exists(health_logs, 1)
    /\ seq_categories >= 2
    /\ ~Exists(categories, 1)

(***************************************************************************)
(* C25.  Notes cannot be cleared through update_log: a log that has notes  *)
(* (not None) has notes after every call, as long as it exists; and        *)
(* EditLogScreen.save_log with a notes field that is empty (or blank)      *)
(* leaves the notes of the log as they were.                               *)
(***************************************************************************)
C25_NotesNeverCleared ==
    [][/\ \A l \in health_logs, n \in health_logs' :
             (n.id = l.id /\ ~IsNone(l.notes)) => ~IsNone(n.notes)
       /\ (last'.op = "save_log" /\ strip(edit_log_screen.notes_field) = <<>>)
             => \A l \in health_logs, n \in health_logs' :
                   n.id = l.id => n.notes = l.notes]_vars

\* the notes field of the loaded log was emptied, save_log has returned
\* True, and the log has the notes it had
C25_Witness ==
    /\ last.op = "save_log"
    /\ last.ret = TRUE
    /\ edit_log_screen.notes_field = <<>>
    /\ edit_log_screen.form_of = edit_log_screen.log_id
    /\ \E l \in health_logs :
          l.id = edit_log_screen.log_id /\ l.notes = PyStr("felt strong")

(***************************************************************************)
(* C26.  The edit form matches the loaded log: a save_log after            *)
(* load_log(id) either returns False and writes nothing, or writes log id  *)
(* from the form that load_log built for log id out of the template of its *)
(* category; it never writes the fields or the template left by a log      *)
(* loaded before, also when the category of log id is gone or log id names *)
(* no log.                                                                 *)
(***************************************************************************)
C26_EditFormMatchesLoadedLog ==
    [][last'.op = "save_log" =>
          \/ /\ last'.ret = FALSE
             /\ health_logs' = health_logs
          \/ /\ edit_log_screen.form_of = edit_log_screen.log_id
             /\ \A l \in health_logs :
                   l.id = edit_log_screen.log_id =>
                      \A category \in {get_category(CurDb, l.category_id.v)} :
                         IsNone(category) \/
                         edit_log_screen.current_template = category.template
             /\ \A l \in health_logs, n \in health_logs' :
                   (n.id = l.id /\ l.id # edit_log_screen.log_id) => n = l]_vars

(***************************************************************************)
(* C27.  Editing without changes is the identity on metrics: for a log     *)
(* whose category exists, load_log(id) followed at once by save_log leaves *)
(* get_log(id).metrics as it was: the same keys, each with the same value  *)
(* of the same type.                                                       *)
(***************************************************************************)
C27_EditWithoutChangesIsIdentity ==
    \A l \in health_logs :
       Exists(categories, l.category_id.v) =>
          \A r \in {save_log(CurDb, "none",
                             load_log(CurDb, edit_log_screen, l.id))} :
             \A before \in {get_log(CurDb, l.id).metrics},
                after \in {get_log(r.db, l.id).metrics} :
                /\ r.ret = TRUE
                /\ DictKeys(after) = DictKeys(before)
                /\ DictEq(after, before)

(***************************************************************************)
(* C28.  The home filter stays valid: active_filter is empty ("All") or    *)
(* the text of a chip that filter_container shows; hence, after a          *)
(* refresh_logs, the list is empty while the store holds a log only if the *)
(* user chose a category that still has a chip.                            *)
(***************************************************************************)
HasChip(text) ==
    \E i \in 1..Len(home.filter_container) : home.filter_container[i] = text

C28_HomeFilterValid ==
    /\ home.active_filter = "" \/ HasChip(home.active_filter)
    /\ (/\ last.op = "refresh_logs"
        /\ health_logs # {}
        /\ home.logs_container.EmptyStateWidget)
          => (home.active_filter # "" /\ HasChip(home.active_filter))

(***************************************************************************)
(* C29.  Interleaved seeding is safe: when two executions of               *)
(* seed_default_categories on an empty store run their store calls (the    *)
(* emptiness check, each add_category) in any order, neither raises, and   *)
(* when both have returned the store holds exactly six categories, one for *)
(* each built-in name.                                                     *)
(***************************************************************************)
C29_InterleavedSeeding ==
    /\ \A p \in SeedExecutions : seeding[p].exc = "none"
    /\ \A a, b \in categories : a.name = b.name => a = b
    /\ (\A p \in SeedExecutions : seeding[p].pc = SeedReturned) =>
          /\ Cardinality(categories) = 6
          /\ {c.name : c \in categories} = BuiltinNames

\* both executions found the store empty, each added some of the
\* categories and found others added by the other, and both have returned
C29_Witness ==
    /\ \A p \in SeedExecutions :
          /\ seeding[p].pc = SeedReturned
          /\ seeding[p].entered
          /\ seeding[p].skipped # {}
    /\ seeding[1].skipped \cup seeding[2].skipped = 1..6
    /\ Cardinality(categories) = 6

(***************************************************************************)
(* C30.  Swipe action gating: after a touch-down, any moves and a          *)
(* touch-up on a SwipeableLogCard, the edit (right) or delete (left)       *)
(* action was triggered only if the displacement at the last move before   *)
(* the release was at or beyond the threshold in the direction of the      *)
(* gesture and the haptic feedback had fired; a release short of the       *)
(* threshold, or on the other side of the start point, snapped the card    *)
(* back.                                                                   *)
(***************************************************************************)
C30_SwipeActionGated ==
    LET dx == card.touch_x - card._touch_start_x
    IN  /\ card.released = "_trigger_edit" =>
              card._vibrated /\ 1000 * dx >= threshold_px
        /\ card.released = "_trigger_delete" =>
              card._vibrated /\ 1000 * (0 - dx) >= threshold_px
        /\ (card.released # "None" /\ 1000 * abs(dx) < threshold_px) =>
              /\ card.released = "_animate_snap_back"
              /\ card.card_offset = 0

=============================================================================
